---- MODULE Spec2Model ----
(***************************************************************************)
(* Model of the leaflet product extractor: the price extractor, the text   *)
(* cleaner, the unit price calculator, the region clusterer, the product   *)
(* region parser, the export service and the extraction endpoint.          *)
(*                                                                         *)
(* Text is a sequence of characters, each a string: one character, or the  *)
(* code point of a character outside ASCII.  A price is the number of      *)
(* cents it denotes (float("3.49") is 349, float("5") is 500): every value *)
(* the code parses has at most two decimals, so equality and order of the  *)
(* floats are equality and order of the cents.  None is -1 where a price is *)
(* expected and the empty tuple where a pair or a record is.               *)
(*                                                                         *)
(* Let(e, F) is LET v == e IN F(v) with e evaluated once: the operators    *)
(* bind what they compute with it, so that the cost of evaluating them     *)
(* does not depend on how often a name is used.                            *)
(***************************************************************************)
EXTENDS Integers, Sequences, FiniteSets, TLC

VARIABLES
    text,         \* the text handed to the price extractor
    frags,        \* the fragments the text was put together from
    form,         \* the slots of a text of the form "$A ($B per U)", or NoneT
    price_out,    \* what extract_price(text, True) returned
    unit_out,     \* what extract_unit_price(text) returned
    pc,           \* "build" while the text grows, "done" once extracted
    ocr_results,  \* the detections handed to the parser
    regions,      \* what _find_price_regions returned
    outcomes,     \* what _extract_product_from_region ended in, per region
    products,     \* what parse_products returned
    fb_regions,   \* what _fallback_spatial_clustering returned
    phase,        \* "input", then "parsed" or "clustered"
    raw,          \* the product name handed to the text cleaner
    name_out,     \* what clean_product_name(raw) returned
    split_out,    \* what extract_quantity_from_name(raw) returned
    stage,        \* "build" while raw grows, then "cleaned" or "split"
    op,           \* the utility function that was called, or "none"
    call,         \* the arguments of the call
    returned,     \* what the call returned
    now,          \* the clock datetime.now() and the file system read
    directory,    \* the files of the output directory
    calls,        \* the calls of export_to_json so far, oldest first
    requests,     \* the extract_products requests: where each handler stands
    input_dir     \* the uploaded files of the input directory

\* the variables of the price extractor, of the parser, of the text cleaner
\* and of a call of a utility function
priceVars == <<text, frags, form, price_out, unit_out, pc>>
parseVars == <<ocr_results, regions, outcomes, products, fb_regions, phase>>
nameVars == <<raw, name_out, split_out, stage>>
callVars == <<op, call, returned>>
exportVars == <<now, directory, calls>>
requestVars == <<requests, input_dir>>
more == <<nameVars, callVars, exportVars, requestVars>>

vars == <<text, frags, form, price_out, unit_out, pc,
          ocr_results, regions, outcomes, products, fb_regions, phase, more>>

\* Python's None in the place of a float
None == -1
\* Python's None in the place of a tuple or an object
NoneT == <<>>

(***************************************************************************)
(* Characters and the classes the regular expressions use.                 *)
(***************************************************************************)
LowerSeq == <<"a","b","c","d","e","f","g","h","i","j","k","l","m",
              "n","o","p","q","r","s","t","u","v","w","x","y","z">>
UpperSeq == <<"A","B","C","D","E","F","G","H","I","J","K","L","M",
              "N","O","P","Q","R","S","T","U","V","W","X","Y","Z">>
DigitSeq == <<"0","1","2","3","4","5","6","7","8","9">>

SeqRange(s) == {s[i] : i \in 1..Len(s)}

LowerLetters == SeqRange(LowerSeq)
UpperLetters == SeqRange(UpperSeq)
Digits == SeqRange(DigitSeq)
Letters == LowerLetters \cup UpperLetters

\* U+0130, the capital I with a dot above: a cased letter of \w that
\* str.lower() turns into "i" followed by U+0307
DottedI == "U+0130"
\* U+0307, the combining dot above: neither \w nor \s, and not cased
DotAbove == "U+0307"

\* \d
IsDigit(c) == c \in Digits
\* \w
IsWord(c) == c \in Letters \cup Digits \cup {"_", DottedI}
\* \s
IsSpace(c) == c = " "

DigitVal == [c \in Digits |-> (CHOOSE i \in 1..10 : DigitSeq[i] = c) - 1]
LowerOf == [c \in UpperLetters |-> LowerSeq[CHOOSE i \in 1..26 : UpperSeq[i] = c]]
UpperOf == [c \in LowerLetters |-> UpperSeq[CHOOSE i \in 1..26 : LowerSeq[i] = c]]

\* str.lower() and str.upper() of one character
LowerChar(c) == IF c \in UpperLetters THEN LowerOf[c] ELSE c
UpperChar(c) == IF c \in LowerLetters THEN UpperOf[c] ELSE c

\* F of the value of e
Let(e, F(_)) == CHOOSE r \in {F(v) : v \in {e}} : TRUE
\* F of the values of a and b
Let2(a, b, F(_, _)) == CHOOSE r \in {F(x, y) : x \in {a}, y \in {b}} : TRUE

\* the pieces of one or two characters each, joined
Flatten(ps0) ==
    Let(ps0, LAMBDA ps :
    Let([i \in 1..Len(ps) |->
            i + Cardinality({j \in 1..(i - 1) : Len(ps[j]) = 2})], LAMBDA start :
    Let(Len(ps) + Cardinality({j \in 1..Len(ps) : Len(ps[j]) = 2}), LAMBDA n :
        [k \in 1..n |->
            Let(CHOOSE i \in 1..Len(ps) :
                    start[i] <= k /\ k < start[i] + Len(ps[i]), LAMBDA i :
                ps[i][k - start[i] + 1])])))

\* whether the text has a character whose case mapping is longer than it
HasSpecialCasing(s) == \E i \in 1..Len(s) : s[i] = DottedI

\* the lower case of one character, as a string
LowerPiece(c) == IF c = DottedI THEN <<"i", DotAbove>> ELSE <<LowerChar(c)>>

\* str.lower()
Lower(s0) ==
    Let(s0, LAMBDA s :
        IF HasSpecialCasing(s)
        THEN Flatten([i \in 1..Len(s) |-> LowerPiece(s[i])])
        ELSE [i \in 1..Len(s) |-> LowerChar(s[i])])

\* s[i:j] with 1-based i and exclusive end j; an end past the text is the
\* end of the text
Slice(s, i, j) ==
    IF j <= i \/ i > Len(s) THEN <<>>
    ELSE SubSeq(s, i, IF j > Len(s) THEN Len(s) ELSE j - 1)

\* whether the literal w stands in s at position i
At(s, i, w) ==
    /\ i >= 1
    /\ i + Len(w) - 1 <= Len(s)
    /\ \A k \in 1..Len(w) : s[i + k - 1] = w[k]

Min(S) == CHOOSE x \in S : \A y \in S : x <= y
Max(S) == CHOOSE x \in S : \A y \in S : y <= x

\* the first position of s that satisfies Hit, 0 when none does
FirstPosition(s, Hit(_, _)) ==
    Let({i \in 1..Len(s) : Hit(s, i)}, LAMBDA hits :
        IF hits = {} THEN 0 ELSE Min(hits))

\* the first position of s from i on where a match ends at End(s, j) > 0, the
\* place where a scan of re.sub or re.search that has come to i goes on
NextHit(s, i, End(_, _)) ==
    Let({j \in i..Len(s) : End(s, j) > 0}, LAMBDA hits :
        IF hits = {} THEN 0 ELSE Min(hits))

\* the end (exclusive) of the longest run from i of characters of the set cls
RunEnd(s, i, cls) ==
    IF i > Len(s) \/ s[i] \notin cls THEN i
    ELSE Let({j \in i..Len(s) : s[j] \notin cls}, LAMBDA stops :
             IF stops = {} THEN Len(s) + 1
             ELSE CHOOSE j \in stops : \A k \in stops : j <= k)

WordChars == Letters \cup Digits \cup {"_", DottedI}
SpaceChars == {" "}

\* greedy \d* from i: the end (exclusive) of the match
DigitRunEnd(s, i) == RunEnd(s, i, Digits)
\* greedy \w* from i
WordRunEnd(s, i) == RunEnd(s, i, WordChars)
\* greedy \s* from i
SpaceRunEnd(s, i) == RunEnd(s, i, SpaceChars)

RECURSIVE DigitsValueUpTo(_, _)
\* int() of the first n digits of ds
DigitsValueUpTo(ds, n) ==
    IF n = 0 THEN 0
    ELSE 10 * DigitsValueUpTo(ds, n - 1) + DigitVal[ds[n]]

\* int() of a run of digits
DigitsValue(ds) == Let(ds, LAMBDA v : DigitsValueUpTo(v, Len(v)))

\* \d+\.\d{2} at i: the end (exclusive) of the match, 0 when there is none.
\* \d+ is greedy and a shorter run would have to be followed by ".", which a
\* digit is not, so the run is the longest one.
AmountEnd(s, i) ==
    Let(DigitRunEnd(s, i), LAMBDA e :
        IF /\ e > i
           /\ e + 2 <= Len(s)
           /\ s[e] = "."
           /\ IsDigit(s[e + 1])
           /\ IsDigit(s[e + 2])
        THEN e + 3
        ELSE 0)

\* float() of the text D.DD standing at i..e-1, in cents
AmountValue(s, i, e) ==
    100 * DigitsValue(Slice(s, i, e - 3)) + DigitsValue(Slice(s, e - 2, e))

(***************************************************************************)
(* Price extractor (app/utils/price_extractor.py).                         *)
(***************************************************************************)
\* \([^)]*\) at i: the end (exclusive) of the match, 0 when there is none; the
\* match runs to the first ")" after the "("
ParenSpanEnd(s, i) ==
    IF s[i] # "(" THEN 0
    ELSE Let({j \in (i + 1)..Len(s) : s[j] = ")"}, LAMBDA closers :
             IF closers = {} THEN 0 ELSE Min(closers) + 1)

RECURSIVE StripParensFrom(_, _)
\* re.sub(r'\([^)]*\)', '', s) from position i on
StripParensFrom(s0, i0) ==
    Let2(s0, i0, LAMBDA s, i :
    Let(NextHit(s, i, ParenSpanEnd), LAMBDA m :
        IF m = 0 THEN Slice(s, i, Len(s) + 1)
        ELSE Slice(s, i, m) \o StripParensFrom(s, ParenSpanEnd(s, m))))

StripParens(s) == StripParensFrom(s, 1)

\* after an amount ending (exclusive) at a: \s*(?:per|/)\s* ; the start of the
\* unit word, 0 when there is no "per" or "/"
UnitWordStart(s, a) ==
    Let(SpaceRunEnd(s, a), LAMBDA b :
        IF At(s, b, <<"p","e","r">>) THEN SpaceRunEnd(s, b + 3)
        ELSE IF At(s, b, <<"/">>) THEN SpaceRunEnd(s, b + 1)
        ELSE 0)

\* \d+\.\d{2}\s*(?:per|/)\s*\w+ at i: the end (exclusive) of the match, 0 when
\* there is none
UnitSpanEnd(s, i) ==
    Let(AmountEnd(s, i), LAMBDA a :
        IF a = 0 THEN 0
        ELSE Let(UnitWordStart(s, a), LAMBDA d :
            IF d = 0 THEN 0
            ELSE Let(WordRunEnd(s, d), LAMBDA e : IF e > d THEN e ELSE 0)))

RECURSIVE StripUnitSpansFrom(_, _)
\* re.sub(r'\d+\.\d{2}\s*(?:per|/)\s*\w+', '', s) from position i on
StripUnitSpansFrom(s0, i0) ==
    Let2(s0, i0, LAMBDA s, i :
    Let(NextHit(s, i, UnitSpanEnd), LAMBDA m :
        IF m = 0 THEN Slice(s, i, Len(s) + 1)
        ELSE Slice(s, i, m) \o StripUnitSpansFrom(s, UnitSpanEnd(s, m))))

StripUnitSpans(s) == StripUnitSpansFrom(s, 1)

\* PRICE_PATTERNS[0], \$\s*(\d+\.\d{2}), at i: <<start, end>> of the group,
\* <<0, 0>> when there is no match
DollarAmountAt(s, i) ==
    IF i <= Len(s) /\ s[i] = "$"
    THEN Let(SpaceRunEnd(s, i + 1), LAMBDA k :
         Let(AmountEnd(s, k), LAMBDA e :
            IF e > 0 THEN <<k, e>> ELSE <<0, 0>>))
    ELSE <<0, 0>>

\* PRICE_PATTERNS[1], \$\s*(\d+)(?!\.\d), at i: <<start, end>> of the group.
\* When the longest run of digits is followed by "." and a digit the
\* lookahead fails and \d+ gives one digit back, if it has two.
WholeDollarAt(s, i) ==
    IF i <= Len(s) /\ s[i] = "$"
    THEN Let(SpaceRunEnd(s, i + 1), LAMBDA k :
         Let(DigitRunEnd(s, k), LAMBDA e :
            IF e = k THEN <<0, 0>>
            ELSE IF ~(e + 1 <= Len(s) /\ s[e] = "." /\ IsDigit(s[e + 1])) THEN <<k, e>>
            ELSE IF e - k >= 2 THEN <<k, e - 1>>
            ELSE <<0, 0>>))
    ELSE <<0, 0>>

\* re.findall(PRICE_PATTERNS[0], s)[0] as a float, None when findall is empty
FirstDollarAmount(s) ==
    Let(FirstPosition(s, LAMBDA t, i : DollarAmountAt(t, i)[2] > 0), LAMBDA m :
        IF m = 0 THEN None
        ELSE Let(DollarAmountAt(s, m), LAMBDA g : AmountValue(s, g[1], g[2])))

\* re.findall(PRICE_PATTERNS[1], s)[0] as a float, None when findall is empty
FirstWholeDollar(s) ==
    Let(FirstPosition(s, LAMBDA t, i : WholeDollarAt(t, i)[2] > 0), LAMBDA m :
        IF m = 0 THEN None
        ELSE Let(WholeDollarAt(s, m), LAMBDA g : 100 * DigitsValue(Slice(s, g[1], g[2]))))

\* the text PriceExtractor.extract_price matches against
CleanText(t, exclude_unit_prices) ==
    IF exclude_unit_prices
    THEN Let(StripParens(t), LAMBDA stripped : StripUnitSpans(stripped))
    ELSE t

\* the patterns of PRICE_PATTERNS in the other order
MatchWholeDollarFirst(clean_text) ==
    Let(clean_text, LAMBDA s :
    Let(FirstWholeDollar(s), LAMBDA price :
        IF price # None THEN price ELSE FirstDollarAmount(s)))

\* the patterns of PRICE_PATTERNS in order, the first match of the first
\* pattern that matches
MatchPricePatterns(clean_text) ==
    Let(clean_text, LAMBDA s :
    Let(FirstDollarAmount(s), LAMBDA price :
        IF price # None THEN price ELSE FirstWholeDollar(s)))

\* PriceExtractor.extract_price
ExtractPrice(t, exclude_unit_prices) ==
    Let(t, LAMBDA s : MatchPricePatterns(CleanText(s, exclude_unit_prices)))

\* the groups of a unit price match whose amount starts at k:
\* <<amount start, amount end, unit start, end>>, zeros when there is no match
UnitMatch(s, k) ==
    Let(UnitSpanEnd(s, k), LAMBDA e :
        IF k <= Len(s) /\ e > 0
        THEN Let(AmountEnd(s, k), LAMBDA a : <<k, a, UnitWordStart(s, a), e>>)
        ELSE <<0, 0, 0, 0>>)

\* UNIT_PRICE_PATTERNS[0], \$\s*(\d+\.\d{2})\s*(?:per|/)\s*(\w+), at i
DollarUnitAt(s, i) ==
    IF i <= Len(s) /\ s[i] = "$" THEN UnitMatch(s, SpaceRunEnd(s, i + 1))
    ELSE <<0, 0, 0, 0>>

\* UNIT_PRICE_PATTERNS[1] at i: the same inside "(" and ")"
ParenUnitAt(s, i) ==
    IF i <= Len(s) /\ s[i] = "("
    THEN Let(DollarUnitAt(s, i + 1), LAMBDA g :
            IF g[4] > 0 /\ g[4] <= Len(s) /\ s[g[4]] = ")" THEN g
            ELSE <<0, 0, 0, 0>>)
    ELSE <<0, 0, 0, 0>>

\* UNIT_PRICE_PATTERNS[2], (\d+\.\d{2})\s*(?:per|/)\s*(\w+), at i
BareUnitAt(s, i) == UnitMatch(s, i)

\* (price, unit) of the groups g of a unit price match
UnitGroups(s, g0) ==
    Let(g0, LAMBDA g : <<AmountValue(s, g[1], g[2]), Slice(s, g[3], g[4])>>)

\* the text as it is, not lower-cased
UnitPriceTextAsIs(t) == t

\* text.lower() as extract_unit_price takes it
UnitPriceText(t) == Lower(t)

\* PriceExtractor.extract_unit_price
ExtractUnitPrice(t) ==
    Let(UnitPriceText(t), LAMBDA s :
    Let(FirstPosition(s, LAMBDA u, i : DollarUnitAt(u, i)[4] > 0), LAMBDA m1 :
        IF m1 > 0 THEN UnitGroups(s, DollarUnitAt(s, m1))
        ELSE Let(FirstPosition(s, LAMBDA u, i : ParenUnitAt(u, i)[4] > 0), LAMBDA m2 :
            IF m2 > 0 THEN UnitGroups(s, ParenUnitAt(s, m2))
            ELSE Let(FirstPosition(s, LAMBDA u, i : BareUnitAt(u, i)[4] > 0), LAMBDA m3 :
                IF m3 > 0 THEN UnitGroups(s, BareUnitAt(s, m3))
                ELSE NoneT))))

(***************************************************************************)
(* Validators (app/utils/validators.py).                                   *)
(***************************************************************************)
\* the price ceiling of PriceValidator.is_valid_price, in dollars
MaxPrice == 10000

\* is_valid_price without its ceiling
IsPositivePrice(price) == price > 0

\* is_valid_price with a ceiling that rejects 10000 itself
IsBelowCeiling(price) == price > 0 /\ price < 100 * MaxPrice

\* PriceValidator.is_valid_price
IsValidPrice(price) ==
    IF price <= 0 THEN FALSE
    ELSE IF price > 100 * MaxPrice THEN FALSE
    ELSE TRUE

\* the k-th smallest member of a set of numbers
Kth(S, k) == CHOOSE x \in S : Cardinality({y \in S : y < x}) = k - 1

\* the end (exclusive) of the longest run of non-space characters from i
NonSpaceRunEnd(s, i) ==
    Let({j \in i..Len(s) : IsSpace(s[j])}, LAMBDA stops :
        IF stops = {} THEN Len(s) + 1 ELSE Min(stops))

\* str.split(): the words between runs of whitespace
Split(s0) ==
    Let(s0, LAMBDA s :
    Let({i \in 1..Len(s) : ~IsSpace(s[i]) /\ (i = 1 \/ IsSpace(s[i - 1]))},
        LAMBDA starts :
            [k \in 1..Cardinality(starts) |->
                Let(Kth(starts, k), LAMBDA i : Slice(s, i, NonSpaceRunEnd(s, i)))]))

RECURSIVE JoinFrom(_, _)
\* " ".join(words[k:])
JoinFrom(words, k) ==
    IF k > Len(words) THEN <<>>
    ELSE IF k = Len(words) THEN words[k]
    ELSE words[k] \o <<" ">> \o JoinFrom(words, k + 1)

\* " ".join(words)
Join(words) == Let(words, LAMBDA ws : JoinFrom(ws, 1))

\* str.strip()
Strip(s0) ==
    Let(s0, LAMBDA s :
    Let({i \in 1..Len(s) : ~IsSpace(s[i])}, LAMBDA keep :
        IF keep = {} THEN <<>> ELSE Slice(s, Min(keep), Max(keep) + 1)))

\* " ".join(text.split())
NormalizeWhitespace(t) == Join(Split(t))

\* TextValidator.clean_text; after " ".join(text.split()) no two spaces are
\* adjacent, so cleaned.replace("  ", " ") replaces nothing
CleanTextValidator(t) == Strip(NormalizeWhitespace(t))

\* the floats of re.findall(PRICE_PATTERNS[0], s), in cents; every match
\* starts at a "$" and holds no other, so the matches are those at each "$"
DollarAmounts(s0) ==
    Let(s0, LAMBDA s :
        {AmountValue(s, DollarAmountAt(s, i)[1], DollarAmountAt(s, i)[2]) :
            i \in {j \in 1..Len(s) : DollarAmountAt(s, j)[2] > 0}})

\* the floats of re.findall(PRICE_PATTERNS[1], s), in cents
WholeDollars(s0) ==
    Let(s0, LAMBDA s :
        {100 * DigitsValue(Slice(s, WholeDollarAt(s, i)[1], WholeDollarAt(s, i)[2])) :
            i \in {j \in 1..Len(s) : WholeDollarAt(s, j)[2] > 0}})

\* sorted(prices) of a list without duplicates
Sorted(S0) == Let(S0, LAMBDA S : [k \in 1..Cardinality(S) |-> Kth(S, k)])

\* PriceExtractor.extract_all_prices (app/utils/price_extractor.py)
ExtractAllPrices(t) == Sorted(DollarAmounts(t) \cup WholeDollars(t))

(***************************************************************************)
(* Text cleaner (app/utils/text_cleaner.py).                               *)
(***************************************************************************)
NOISE_WORDS ==
    {<<"s","p","e","c","i","a","l">>,
     <<"o","f","f","e","r">>,
     <<"b","u","y">>,
     <<"n","o","w">>,
     <<"s","a","v","e">>,
     <<"o","n","l","y">>,
     <<"t","o","d","a","y">>,
     <<"l","i","m","i","t","e","d">>,
     <<"n","e","w">>,
     <<"f","r","e","s","h">>,
     <<"q","u","a","l","i","t","y">>}

OFFER_PATTERNS ==
    <<<<"s","u","p","e","r"," ","s","a","v","e","r">>,
      <<"s","p","e","c","i","a","l"," ","b","u","y">>,
      <<"a","l","d","i"," ","s","p","e","c","i","a","l">>,
      <<"l","i","m","i","t","e","d"," ","t","i","m","e">>,
      <<"w","h","i","l","e"," ","s","t","o","c","k","s"," ","l","a","s","t">>,
      <<"s","p","e","c","i","a","l"," ","o","f","f","e","r">>>>

\* the characters re.sub(r'[^\w\s\-\&\(\)\/]', '', s) keeps
IsNameChar(c) == IsWord(c) \/ IsSpace(c) \/ c \in {"-", "&", "(", ")", "/"}

\* re.sub(r'[^\w\s\-\&\(\)\/]', '', s)
RemoveSpecialChars(s0) ==
    Let(s0, LAMBDA s : SelectSeq(s, LAMBDA c : IsNameChar(c)))

\* the cased characters: the previous character being one of them is what
\* str.title() looks at
IsCased(c) == c \in Letters \cup {DottedI}

\* str.title(): a character after a cased character is lower-cased, any
\* other character is title-cased
Title(s0) ==
    Let(s0, LAMBDA s :
        IF HasSpecialCasing(s)
        THEN Flatten([i \in 1..Len(s) |->
                IF i > 1 /\ IsCased(s[i - 1]) THEN LowerPiece(s[i])
                ELSE <<UpperChar(s[i])>>])
        ELSE [i \in 1..Len(s) |->
                IF i > 1 /\ IsCased(s[i - 1]) THEN LowerChar(s[i])
                ELSE UpperChar(s[i])])

\* whether the filter of clean_product_name keeps the word w
KeepsWord(w) == Lower(w) \notin NOISE_WORDS

\* [w for w in words if w.lower() not in NOISE_WORDS]
DropNoise(words) == SelectSeq(words, LAMBDA w : KeepsWord(w))

\* TextCleaner.clean_product_name
CleanProductName(t0) ==
    Let(t0, LAMBDA t :
        IF t = <<>> THEN <<>>
        ELSE Let(Title(RemoveSpecialChars(NormalizeWhitespace(t))), LAMBDA titled :
             Let(DropNoise(Split(titled)), LAMBDA words : Strip(Join(words)))))

\* re.IGNORECASE: the characters are compared by their lower case, one by
\* one
CaseFold(s) == [i \in 1..Len(s) |-> LowerChar(s[i])]

\* the alternation (?:g|kg|ml|l|pack) at k in the lower-cased text l: the end
\* (exclusive) of the first alternative that matches, 0 when none does
QuantityUnitEnd(l, k) ==
    IF At(l, k, <<"g">>) THEN k + 1
    ELSE IF At(l, k, <<"k","g">>) THEN k + 2
    ELSE IF At(l, k, <<"m","l">>) THEN k + 2
    ELSE IF At(l, k, <<"l">>) THEN k + 1
    ELSE IF At(l, k, <<"p","a","c","k">>) THEN k + 4
    ELSE 0

\* quantity_patterns[0], (\d+\s*(?:g|kg|ml|l|pack)) ignoring case, at i of
\* the lower-cased text l
QuantityEnd(l, i) ==
    Let(DigitRunEnd(l, i), LAMBDA e :
        IF i <= Len(l) /\ e > i
        THEN Let(SpaceRunEnd(l, e), LAMBDA k : QuantityUnitEnd(l, k))
        ELSE 0)

\* quantity_patterns[1], (\d+\s*x\s*\d+\s*(?:g|ml)) ignoring case, at i of
\* the lower-cased text l
MultiQuantityEnd(l, i) ==
    Let(DigitRunEnd(l, i), LAMBDA e :
    Let(SpaceRunEnd(l, e), LAMBDA x :
    Let(SpaceRunEnd(l, x + 1), LAMBDA k :
    Let(DigitRunEnd(l, k), LAMBDA f :
    Let(SpaceRunEnd(l, f), LAMBDA u :
        IF i <= Len(l) /\ e > i /\ At(l, x, <<"x">>) /\ f > k
        THEN IF At(l, u, <<"g">>) THEN u + 1
             ELSE IF At(l, u, <<"m","l">>) THEN u + 2
             ELSE 0
        ELSE 0)))))

RECURSIVE StripQuantityFrom(_, _, _)
\* re.sub(quantity_patterns[0], '', s, flags=re.IGNORECASE) from position i
\* on; l is s in lower case
StripQuantityFrom(s0, l0, i0) ==
    Let2(s0, l0, LAMBDA s, l :
    Let(NextHit(l, i0, QuantityEnd), LAMBDA m :
        IF m = 0 THEN Slice(s, i0, Len(s) + 1)
        ELSE Slice(s, i0, m) \o StripQuantityFrom(s, l, QuantityEnd(l, m))))

RECURSIVE StripMultiQuantityFrom(_, _, _)
\* re.sub(quantity_patterns[1], '', s, flags=re.IGNORECASE) from position i on
StripMultiQuantityFrom(s0, l0, i0) ==
    Let2(s0, l0, LAMBDA s, l :
    Let(NextHit(l, i0, MultiQuantityEnd), LAMBDA m :
        IF m = 0 THEN Slice(s, i0, Len(s) + 1)
        ELSE Slice(s, i0, m) \o StripMultiQuantityFrom(s, l, MultiQuantityEnd(l, m))))

\* TextCleaner.extract_quantity_from_name: <<cleaned_name, quantity>>
ExtractQuantityFromName(t0) ==
    Let2(t0, CaseFold(t0), LAMBDA t, l :
    Let(FirstPosition(l, LAMBDA u, i : QuantityEnd(u, i) > 0), LAMBDA m1 :
        IF m1 > 0
        THEN <<Strip(NormalizeWhitespace(StripQuantityFrom(t, l, 1))),
               Lower(Strip(Slice(t, m1, QuantityEnd(l, m1))))>>
        ELSE Let(FirstPosition(l, LAMBDA u, i : MultiQuantityEnd(u, i) > 0), LAMBDA m2 :
            IF m2 > 0
            THEN <<Strip(NormalizeWhitespace(StripMultiQuantityFrom(t, l, 1))),
                   Lower(Strip(Slice(t, m2, MultiQuantityEnd(l, m2))))>>
            ELSE <<Strip(NormalizeWhitespace(t)), <<>>>>)))

RECURSIVE DetectOfferFrom(_, _, _)
\* the loop of TextCleaner.detect_special_offer from pattern number k on;
\* text_lower is t in lower case
DetectOfferFrom(t, text_lower, k) ==
    IF k > Len(OFFER_PATTERNS) THEN <<>>
    ELSE Let(FirstPosition(text_lower, LAMBDA u, i : At(u, i, OFFER_PATTERNS[k])), LAMBDA m :
        IF m > 0 THEN Title(Slice(t, m, m + Len(OFFER_PATTERNS[k])))
        ELSE DetectOfferFrom(t, text_lower, k + 1))

\* TextCleaner.detect_special_offer
DetectSpecialOffer(t0) ==
    Let2(t0, Lower(t0), LAMBDA t, text_lower : DetectOfferFrom(t, text_lower, 1))

(***************************************************************************)
(* Unit price calculator (app/utils/unit_price_calculator.py).  Amounts    *)
(* are in cents; a conversion factor is the fraction num / den.            *)
(***************************************************************************)
\* 0.453592 is 56699 / 125000 and 0.0283495 is 56699 / 2000000
WEIGHT_CONVERSIONS ==
    <<"k","g">> :> [num |-> 1, den |-> 1] @@
    <<"g">> :> [num |-> 1, den |-> 1000] @@
    <<"1","0","0","g">> :> [num |-> 1, den |-> 10] @@
    <<"2","5","0","g">> :> [num |-> 1, den |-> 4] @@
    <<"5","0","0","g">> :> [num |-> 1, den |-> 2] @@
    <<"l","b">> :> [num |-> 56699, den |-> 125000] @@
    <<"o","z">> :> [num |-> 56699, den |-> 2000000]

VOLUME_CONVERSIONS ==
    <<"l">> :> [num |-> 1, den |-> 1] @@
    <<"l","i","t","r","e">> :> [num |-> 1, den |-> 1] @@
    <<"l","i","t","e","r">> :> [num |-> 1, den |-> 1] @@
    <<"m","l">> :> [num |-> 1, den |-> 1000] @@
    <<"1","0","0","m","l">> :> [num |-> 1, den |-> 10] @@
    <<"2","5","0","m","l">> :> [num |-> 1, den |-> 4] @@
    <<"5","0","0","m","l">> :> [num |-> 1, den |-> 2]

\* round(num / den, 2) of an amount of num / den cents, den > 0: the nearest
\* whole numbers of cents. The quotient is a binary float, and halfway
\* between two cents its representation error decides: 5.99 / 2 gives 3.0,
\* 2.675 gives 2.67.
RoundToCents(num, den) ==
    Let2(num \div den, num % den, LAMBDA whole, rest :
        IF 2 * rest < den THEN {whole}
        ELSE IF 2 * rest > den THEN {whole + 1}
        ELSE {whole, whole + 1})

\* calculate_unit_price with every unit taken as unknown
PricePerItem(total_price, quantity, unit) ==
    IF total_price <= 0 \/ quantity <= 0 THEN {None}
    ELSE RoundToCents(total_price, quantity)

\* UnitPriceCalculator.calculate_unit_price: the values it can return
CalculateUnitPrice(total_price, quantity, unit) ==
    IF total_price <= 0 \/ quantity <= 0 THEN {None}
    ELSE Let(Strip(Lower(unit)), LAMBDA unit_lower :
        IF unit_lower \in DOMAIN WEIGHT_CONVERSIONS
        THEN Let(WEIGHT_CONVERSIONS[unit_lower], LAMBDA conversion :
                RoundToCents(total_price * conversion.den, quantity * conversion.num))
        ELSE IF unit_lower \in DOMAIN VOLUME_CONVERSIONS
        THEN Let(VOLUME_CONVERSIONS[unit_lower], LAMBDA conversion :
                RoundToCents(total_price * conversion.den, quantity * conversion.num))
        ELSE RoundToCents(total_price, quantity))

\* abs(a - b) <= tolerance on binary floats that stand for whole numbers of
\* cents: when the difference is the tolerance itself the representation
\* error decides (abs(13.96 - 14.06) <= 0.1 is True, abs(1.0 - 1.1) <= 0.1 is
\* False), except that two equal floats differ by 0.0
WithinTolerance(a, b, tolerance) ==
    Let(IF a >= b THEN a - b ELSE b - a, LAMBDA diff :
        IF diff < tolerance THEN {TRUE}
        ELSE IF diff > tolerance THEN {FALSE}
        ELSE IF diff = 0 THEN {TRUE}
        ELSE {TRUE, FALSE})

\* UnitPriceCalculator.validate_unit_price: the values it can return
ValidateUnitPrice(total_price, unit_price, quantity, unit, tolerance) ==
    UNION {IF calculated = None THEN {FALSE}
           ELSE WithinTolerance(calculated, unit_price, tolerance) :
           calculated \in CalculateUnitPrice(total_price, quantity, unit)}

\* unit_mapping of normalize_unit, as pairs <<long form, short form>>
UnitMapping ==
    {<<<<"k","i","l","o","g","r","a","m">>, <<"k","g">>>>,
     <<<<"k","i","l","o","g","r","a","m","s">>, <<"k","g">>>>,
     <<<<"g","r","a","m">>, <<"g">>>>,
     <<<<"g","r","a","m","s">>, <<"g">>>>,
     <<<<"l","i","t","r","e">>, <<"l">>>>,
     <<<<"l","i","t","e","r">>, <<"l">>>>,
     <<<<"l","i","t","r","e","s">>, <<"l">>>>,
     <<<<"l","i","t","e","r","s">>, <<"l">>>>,
     <<<<"m","i","l","l","i","l","i","t","e","r">>, <<"m","l">>>>,
     <<<<"m","i","l","l","i","l","i","t","r","e">>, <<"m","l">>>>,
     <<<<"m","i","l","l","i","l","i","t","e","r","s">>, <<"m","l">>>>,
     <<<<"m","i","l","l","i","l","i","t","r","e","s">>, <<"m","l">>>>}

\* UnitPriceCalculator.normalize_unit
NormalizeUnit(unit) ==
    Let(Strip(Lower(unit)), LAMBDA unit_lower :
    Let({m \in UnitMapping : m[1] = unit_lower}, LAMBDA hit :
        IF hit # {} THEN (CHOOSE m \in hit : TRUE)[2] ELSE unit_lower))

(***************************************************************************)
(* Data model (app/models/product.py).  A detection is a record            *)
(* [bbox, text, confidence]; a box keeps the two corners the code reads;   *)
(* confidence is in hundredths.  A region is the sequence of the indices   *)
(* of its detections in the input list (the code's id(result)).            *)
(***************************************************************************)
\* BoundingBox.center
Center(bbox) ==
    <<(bbox.top_left[1] + bbox.bottom_right[1]) \div 2,
      (bbox.top_left[2] + bbox.bottom_right[2]) \div 2>>

\* BoundingBox.width
Width(bbox) == bbox.bottom_right[1] - bbox.top_left[1]

\* BoundingBox.height
Height(bbox) == bbox.bottom_right[2] - bbox.top_left[2]

\* BoundingBox.area
Area(bbox) == Width(bbox) * Height(bbox)

\* [result.text for result in self.texts]
RegionTexts(rs, region) == [k \in 1..Len(region) |-> rs[region[k]].text]

\* ProductRegion.combined_text
CombinedText(rs, region) == Join(RegionTexts(rs, region))

RECURSIVE SumConfidence(_, _, _)
\* sum(result.confidence for result in self.texts[k:])
SumConfidence(rs, region, k) ==
    IF k > Len(region) THEN 0
    ELSE rs[region[k]].confidence + SumConfidence(rs, region, k + 1)

\* ProductRegion.average_confidence, as the fraction num / den
AverageConfidence(rs, region) ==
    IF region = <<>> THEN [num |-> 0, den |-> 1]
    ELSE [num |-> SumConfidence(rs, region, 1), den |-> 100 * Len(region)]

(***************************************************************************)
(* Region clusterer (app/services/parser_service.py).                      *)
(***************************************************************************)
\* radius of _find_price_regions, in pixels
Radius == 200
\* nearby_texts[:10]
MaxNeighbours == 10
\* radius of _fallback_spatial_clustering, in pixels
FallbackRadius == 150
\* words[:8]
MaxNameWords == 8

\* sorted(seq) by the keys key[i] of its members, which Less orders: stable
SortByKey(seq0, key0, Less(_, _)) ==
    Let2(seq0, key0, LAMBDA seq, key :
    Let([i \in 1..Len(seq) |->
            Cardinality({j \in 1..Len(seq) :
                \/ Less(key[j], key[i])
                \/ (~Less(key[i], key[j]) /\ j < i)}) + 1],
        LAMBDA rank :
            [r \in 1..Len(seq) |-> seq[CHOOSE i \in 1..Len(seq) : rank[i] = r]]))

Indices(rs) == [i \in 1..Len(rs) |-> i]

Range(seq) == {seq[i] : i \in 1..Len(seq)}

\* the square of the distance between two centers; the code compares its
\* square root with the radius and sorts by it
DistSq(c1, c2) ==
    (c1[1] - c2[1]) * (c1[1] - c2[1]) + (c1[2] - c2[2]) * (c1[2] - c2[2])

\* re.search(r'(\d+\.\d{2})|(\d+)', s) as a float, None without a match
FirstNumber(s) ==
    Let(FirstPosition(s, LAMBDA t, i : IsDigit(t[i])), LAMBDA i :
        IF i = 0 THEN None
        ELSE Let(AmountEnd(s, i), LAMBDA e :
            IF e > 0 THEN AmountValue(s, i, e)
            ELSE 100 * DigitsValue(Slice(s, i, DigitRunEnd(s, i)))))

\* "not price" of a float or None
Falsy(price) == price = None \/ price = 0

\* the price the parser reads in a text: extract_price, and without one the
\* first number of the text
LenientPrice(t0) ==
    Let(t0, LAMBDA t :
    Let(ExtractPrice(t, TRUE), LAMBDA price :
        IF Falsy(price)
        THEN Let(FirstNumber(t), LAMBDA n : IF n # None THEN n ELSE price)
        ELSE price))

\* the test of _find_price_regions without is_valid_price
IsPriceResultUnvalidated(result) == ~Falsy(LenientPrice(result.text))

\* whether _find_price_regions appends the detection to price_results
IsPriceResult(result) ==
    Let(LenientPrice(result.text), LAMBDA price :
        ~Falsy(price) /\ IsValidPrice(price))

\* price_results cut to its first entry
FirstPriceResultOnly(rs) ==
    Let(SelectSeq(Indices(rs), LAMBDA i : IsPriceResult(rs[i])), LAMBDA all :
        IF all = <<>> THEN all ELSE <<all[1]>>)

\* price_results of _find_price_regions, as indices of the input list
PriceResults(rs) == SelectSeq(Indices(rs), LAMBDA i : IsPriceResult(rs[i]))

\* nearby_texts of one anchor left in the order of the input list
NearbyInListOrder(dist, used) ==
    SelectSeq(Indices(dist), LAMBDA i : i \notin used /\ dist[i] < Radius * Radius)

\* nearby_texts of one anchor, sorted by distance; dist[i] is the squared
\* distance of detection i from the anchor
NearbyTexts(dist, used) ==
    Let(SelectSeq(Indices(dist),
                  LAMBDA i : i \notin used /\ dist[i] < Radius * Radius),
        LAMBDA nearby :
            SortByKey(nearby, [k \in 1..Len(nearby) |-> dist[nearby[k]]],
                      LAMBDA a, b : a < b))

\* nearby_texts[:9], one neighbour short
TakeNine(nearby) ==
    IF Len(nearby) > 9 THEN SubSeq(nearby, 1, 9) ELSE nearby

\* nearby_texts[:10]
TakeNearest(nearby) ==
    IF Len(nearby) > MaxNeighbours THEN SubSeq(nearby, 1, MaxNeighbours) ELSE nearby

\* one turn of the loop over price_results: the region of the anchor, given
\* used_results as they are after the anchor is added
RegionOf(rs, anchor, used1) ==
    Let([i \in 1..Len(rs) |-> DistSq(Center(rs[anchor].bbox), Center(rs[i].bbox))],
        LAMBDA dist : <<anchor>> \o TakeNearest(NearbyTexts(dist, used1)))

RECURSIVE GatherRegions(_, _, _, _)
\* the loop over price_results from anchor number k on; acc is the pair of
\* the regions and the used_results so far
GatherRegions(rs, anchors, k, acc0) ==
    Let(acc0, LAMBDA acc :
        IF k > Len(anchors) THEN acc[1]
        ELSE Let(RegionOf(rs, anchors[k], acc[2] \cup {anchors[k]}),
                 LAMBDA region_texts :
                     GatherRegions(rs, anchors, k + 1,
                                   <<Append(acc[1], region_texts),
                                     acc[2] \cup Range(region_texts)>>)))

\* the test on a finished group with 1 in the place of 2
FormsRegionOfOne(region_texts) == Len(region_texts) >= 1

\* the test of _fallback_spatial_clustering on a finished group
FormsRegion(region_texts) == Len(region_texts) >= 2

RECURSIVE FallbackLoop(_, _, _, _)
\* the loop over sorted_results from position k on; acc is the pair of the
\* regions and the used set so far
FallbackLoop(rs, sorted, k, acc0) ==
    Let(acc0, LAMBDA acc :
        IF k > Len(sorted) THEN acc[1]
        ELSE IF sorted[k] \in acc[2] THEN FallbackLoop(rs, sorted, k + 1, acc)
        ELSE Let(<<sorted[k]>> \o SelectSeq(sorted,
                     LAMBDA o : /\ o \notin acc[2] \cup {sorted[k]}
                                /\ DistSq(Center(rs[sorted[k]].bbox), Center(rs[o].bbox))
                                     < FallbackRadius * FallbackRadius),
                 LAMBDA region_texts :
                     FallbackLoop(rs, sorted, k + 1,
                         <<IF FormsRegion(region_texts)
                           THEN Append(acc[1], region_texts) ELSE acc[1],
                           acc[2] \cup Range(region_texts)>>)))

\* sorted_results left in the order of the input list
ResultsInListOrder(rs) == Indices(rs)

\* sorted(ocr_results, key=lambda r: (r.bbox.center[1], r.bbox.center[0]))
SortedResults(rs) ==
    SortByKey(Indices(rs), [i \in 1..Len(rs) |-> Center(rs[i].bbox)],
              LAMBDA a, b : a[2] < b[2] \/ (a[2] = b[2] /\ a[1] < b[1]))

\* ProductParser._fallback_spatial_clustering
FallbackSpatialClustering(rs) ==
    IF rs = <<>> THEN <<>>
    ELSE Let(SortedResults(rs), LAMBDA sorted :
             FallbackLoop(rs, sorted, 1, <<<<>>, {}>>))

\* ProductParser._find_price_regions
FindPriceRegions(rs) ==
    Let(PriceResults(rs), LAMBDA price_results :
        IF price_results = <<>> THEN FallbackSpatialClustering(rs)
        ELSE GatherRegions(rs, price_results, 1, <<<<>>, {}>>))

(***************************************************************************)
(* Product region parser (app/services/parser_service.py).                 *)
(***************************************************************************)
\* \$?\d+\.\d{2} at i: the end (exclusive) of the match, 0 when there is none
PriceTokenEnd(s, i) ==
    IF i > Len(s) THEN 0
    ELSE IF s[i] = "$"
    THEN Let(AmountEnd(s, i + 1), LAMBDA e : IF e > 0 THEN e ELSE AmountEnd(s, i))
    ELSE AmountEnd(s, i)

RECURSIVE StripPricesFrom(_, _)
\* re.sub(r'\$?\d+\.\d{2}', '', s) from position i on
StripPricesFrom(s0, i0) ==
    Let2(s0, i0, LAMBDA s, i :
    Let(NextHit(s, i, PriceTokenEnd), LAMBDA m :
        IF m = 0 THEN Slice(s, i, Len(s) + 1)
        ELSE Slice(s, i, m) \o StripPricesFrom(s, PriceTokenEnd(s, m))))

StripPrices(s) == StripPricesFrom(s, 1)

\* \b\d+\b at i: the end (exclusive) of the match, 0 when there is none
StandaloneDigitsEnd(s, i) ==
    Let(DigitRunEnd(s, i), LAMBDA e :
        IF /\ i <= Len(s)
           /\ e > i
           /\ (i = 1 \/ ~IsWord(s[i - 1]))
           /\ (e > Len(s) \/ ~IsWord(s[e]))
        THEN e
        ELSE 0)

RECURSIVE StripStandaloneDigitsFrom(_, _)
\* re.sub(r'\b\d+\b', '', s) from position i on
StripStandaloneDigitsFrom(s0, i0) ==
    Let2(s0, i0, LAMBDA s, i :
    Let(NextHit(s, i, StandaloneDigitsEnd), LAMBDA m :
        IF m = 0 THEN Slice(s, i, Len(s) + 1)
        ELSE Slice(s, i, m) \o StripStandaloneDigitsFrom(s, StandaloneDigitsEnd(s, m))))

StripStandaloneDigits(s) == StripStandaloneDigitsFrom(s, 1)

\* re.match(r'^[\d\$\.\s]+$', s)
OnlyNumbers(s) ==
    /\ s # <<>>
    /\ \A i \in 1..Len(s) : IsDigit(s[i]) \/ IsSpace(s[i]) \/ s[i] \in {"$", "."}

\* ' '.join(words[:8]) if len(words) > 8 else cleaned
TruncateWords(cleaned0) ==
    Let2(cleaned0, Split(cleaned0), LAMBDA cleaned, words :
        IF Len(words) > MaxNameWords THEN Join(SubSeq(words, 1, MaxNameWords))
        ELSE cleaned)

\* the text a candidate gives as a name: the two re.sub and the strip
CandidateCleaned(candidate) == Strip(StripStandaloneDigits(StripPrices(candidate)))

\* what one candidate of the loop of _extract_product_name_lenient gives: the
\* name it returns, or NoneT when the loop goes on
CandidateName(t) ==
    Let(Strip(t), LAMBDA candidate :
        IF OnlyNumbers(candidate) THEN NoneT
        ELSE IF Len(candidate) >= 2
        THEN Let(CandidateCleaned(candidate), LAMBDA cleaned :
                 IF Len(cleaned) >= 2 THEN <<TruncateWords(cleaned)>> ELSE NoneT)
        ELSE NoneT)

RECURSIVE NameLoop(_, _, _, _)
\* the loop over sorted_by_size from position k on, then the fallback
NameLoop(rs, sorted_by_size, k, combined_text) ==
    IF k > Len(sorted_by_size)
    THEN TruncateWords(CleanTextValidator(StripPrices(combined_text)))
    ELSE Let(CandidateName(rs[sorted_by_size[k]].text), LAMBDA name :
        IF name # NoneT THEN name[1]
        ELSE NameLoop(rs, sorted_by_size, k + 1, combined_text))

\* region.texts left in the order of the region
TextsInRegionOrder(rs, region) == region

\* sorted(region.texts, key=lambda r: r.bbox.area, reverse=True)
SortedBySize(rs, region) ==
    SortByKey(region, [k \in 1..Len(region) |-> Area(rs[region[k]].bbox)],
              LAMBDA a, b : a > b)

\* ProductParser._extract_product_name_lenient
ExtractProductNameLenient(rs, region, combined_text) ==
    Let(SortedBySize(rs, region), LAMBDA sorted_by_size :
        NameLoop(rs, sorted_by_size, 1, combined_text))

\* the corner coordinates of the members of a region: all_x and all_y
AllX(rs, region) ==
    UNION {{rs[i].bbox.top_left[1], rs[i].bbox.bottom_right[1]} : i \in Range(region)}
AllY(rs, region) ==
    UNION {{rs[i].bbox.top_left[2], rs[i].bbox.bottom_right[2]} : i \in Range(region)}

\* the constraints of the schema Position (app/schemas/product.py)
PositionValid(position) ==
    /\ position.x >= 0
    /\ position.y >= 0
    /\ position.width > 0
    /\ position.height > 0

\* the box of the first member of the region in the place of the box of all
PositionOfFirstMember(rs, region) ==
    IF region = <<>> THEN NoneT
    ELSE [x |-> rs[region[1]].bbox.top_left[1],
          y |-> rs[region[1]].bbox.top_left[2],
          width |-> Width(rs[region[1]].bbox),
          height |-> Height(rs[region[1]].bbox)]

\* ProductParser._calculate_region_position, before the schema validates it
CalculateRegionPosition(rs, region) ==
    IF region = <<>> THEN NoneT
    ELSE Let2(AllX(rs, region), AllY(rs, region), LAMBDA all_x, all_y :
             [x |-> Min(all_x),
              y |-> Min(all_y),
              width |-> Max(all_x) - Min(all_x),
              height |-> Max(all_y) - Min(all_y)])

\* None in the place of an optional string
NoneS == <<"None">>

\* final_name of _extract_product_from_region, from the pair
\* extract_quantity_from_name gave for cleaned_name
FinalName(cleaned_name, name_without_qty) ==
    IF name_without_qty # <<>> /\ Len(name_without_qty) > 2 THEN name_without_qty
    ELSE cleaned_name

\* the constraints of the schema Product (app/schemas/product.py): a record
\* that breaks one raises ValidationError
ProductValid(p) ==
    /\ Len(p.name) >= 1
    /\ p.price > 0
    /\ (p.unit_price # None => p.unit_price > 0)
    /\ p.confidence.num >= 0
    /\ p.confidence.num <= p.confidence.den

\* unit=f"per {unit}" if unit else None, with unit normalised
UnitLabel(unit_price_result) ==
    IF unit_price_result = NoneT THEN NoneS
    ELSE Let(NormalizeUnit(unit_price_result[2]), LAMBDA unit :
             IF unit # <<>> THEN <<"p","e","r"," ">> \o unit ELSE NoneS)

\* the record Product(...) is built from in _extract_product_from_region;
\* the id is opaque and unique, modelled by the number of the region
BuildProduct(rs, region, index, price, product_name, combined_text) ==
    Let(CleanProductName(product_name), LAMBDA cleaned_name :
    Let(ExtractQuantityFromName(cleaned_name), LAMBDA split :
    Let2(ExtractUnitPrice(combined_text), DetectSpecialOffer(combined_text),
         LAMBDA unit_price_result, special_offer :
        [id |-> index,
         name |-> Strip(FinalName(cleaned_name, split[1])),
         description |-> IF split[2] # <<>> THEN Strip(split[2]) ELSE NoneS,
         price |-> price,
         unit_price |-> IF unit_price_result # NoneT THEN unit_price_result[1] ELSE None,
         unit |-> UnitLabel(unit_price_result),
         currency |-> <<"A","U","D">>,
         special_offer |-> IF special_offer # <<>> THEN special_offer ELSE NoneS,
         position |-> CalculateRegionPosition(rs, region),
         confidence |-> AverageConfidence(rs, region)])))

\* Product(...) of a built record: the product, or the ValidationError with
\* the record it rejected
Validated(p0) ==
    Let(p0, LAMBDA p :
        IF PositionValid(p.position) /\ ProductValid(p)
        THEN [kind |-> "product", product |-> p]
        ELSE [kind |-> "raised", rejected |-> p])

\* ProductParser._extract_product_from_region: what the call ends in, a
\* Product ("product"), None ("none") or a ValidationError ("raised")
ExtractProductFromRegion(rs, region, index) ==
    Let(CombinedText(rs, region), LAMBDA combined_text :
    Let(LenientPrice(combined_text), LAMBDA price :
        IF Falsy(price) \/ ~IsValidPrice(price) THEN [kind |-> "none"]
        ELSE Let(ExtractProductNameLenient(rs, region, combined_text),
                 LAMBDA product_name :
            IF product_name = <<>> \/ Len(Strip(product_name)) < 2
            THEN [kind |-> "none"]
            ELSE Validated(BuildProduct(rs, region, index, price, product_name,
                                        combined_text)))))

\* the outcomes of the regions of parse_products, in order (the code counts
\* the regions from 0)
Outcomes(rs, price_regions) ==
    [i \in 1..Len(price_regions) |->
        ExtractProductFromRegion(rs, price_regions[i], i - 1)]

\* the loop of parse_products without its try: the first region that raises
\* ends it
ProductsUntilRaise(outcomes0) ==
    Let(outcomes0, LAMBDA os :
    Let({i \in 1..Len(os) : os[i].kind = "raised"}, LAMBDA raised :
    Let(IF raised = {} THEN os ELSE SubSeq(os, 1, Min(raised) - 1), LAMBDA before :
    Let(SelectSeq(before, LAMBDA r : r.kind = "product"), LAMBDA kept :
        [k \in 1..Len(kept) |-> kept[k].product]))))

\* the loop of parse_products: a region that ends in None or raises adds
\* nothing
ProductsOf(outcomes0) ==
    Let(SelectSeq(outcomes0, LAMBDA r : r.kind = "product"), LAMBDA kept :
        [k \in 1..Len(kept) |-> kept[k].product])

\* ProductParser.parse_products
ParseProducts(rs) ==
    Let(FindPriceRegions(rs), LAMBDA price_regions :
        ProductsOf(Outcomes(rs, price_regions)))

\* ProductParser.validate_product: the set of the errors it reports
ValidateProduct(product) ==
    (IF ~IsValidPrice(product.price) THEN {"Invalid price"} ELSE {})
    \cup (IF Len(Strip(product.name)) < 2 THEN {"Invalid product name"} ELSE {})

(***************************************************************************)
(* Export service (app/services/export_service.py) and the schema Product  *)
(* (app/schemas/product.py).                                               *)
(***************************************************************************)
\* the truth value Python gives an optional field: None, an empty string
\* and 0 are false
Truthy(field, value) ==
    IF field = "unit_price" THEN value # None /\ value # 0
    ELSE IF field = "position" THEN value # NoneT
    ELSE value # NoneS /\ value # <<>>

\* the fields _product_to_dict always writes and those it writes if present
RequiredFields == {"id", "name", "price", "currency", "confidence"}
OptionalFields == {"description", "unit_price", "unit", "special_offer", "position"}

\* round(product.confidence, 2): the hundredths it can give
RoundedConfidence(confidence) == RoundToCents(100 * confidence.num, confidence.den)

\* _product_to_dict with every optional field written, None included
ProductToDictWithNulls(product) ==
    {[field \in RequiredFields \cup OptionalFields |->
        IF field = "confidence" THEN [num |-> hundredths, den |-> 100]
        ELSE product[field]] :
     hundredths \in RoundedConfidence(product.confidence)}

\* ExportService._product_to_dict: the dictionaries it can return
ProductToDict(product) ==
    Let({field \in OptionalFields : Truthy(field, product[field])}, LAMBDA present :
        {[field \in RequiredFields \cup present |->
            IF field = "confidence" THEN [num |-> hundredths, den |-> 100]
            ELSE product[field]] :
         hundredths \in RoundedConfidence(product.confidence)})

\* the value of a field that a dictionary leaves out
DefaultOf(field) ==
    IF field = "unit_price" THEN None
    ELSE IF field = "position" THEN NoneT
    ELSE NoneS

\* Product(**product_dict): the defaults of the schema, strip_whitespace on
\* name and description, round_price on amounts that are whole cents, and
\* the constraints
ParseProductDict(product_dict) ==
    Let([field \in RequiredFields \cup OptionalFields |->
            IF field \notin DOMAIN product_dict THEN DefaultOf(field)
            ELSE IF field \in {"name", "description"} THEN Strip(product_dict[field])
            ELSE product_dict[field]], LAMBDA p :
        IF ProductValid(p) /\ (p.position # NoneT => PositionValid(p.position))
        THEN [kind |-> "product", product |-> p]
        ELSE [kind |-> "raised", rejected |-> p])

\* [self._product_to_dict(p) for p in products]: the lists it can give
ProductDicts(product_list) ==
    {dicts \in [1..Len(product_list) -> UNION {ProductToDict(product_list[k]) : k \in 1..Len(product_list)}] :
        \A k \in 1..Len(product_list) : dicts[k] \in ProductToDict(product_list[k])}

\* the file export_to_json writes at the time clock as its call number n:
\* the name is the timestamp, the extraction id a fresh uuid, which the call
\* number stands for; processing_time is in thousandths of a second
ExportFile(clock, n, product_list, dicts, source_image, processing_time, seconds) ==
    [filename |-> clock,
     mtime |-> clock,
     data |-> [extraction_id |-> n,
               timestamp |-> clock,
               source_image |-> source_image,
               products |-> dicts,
               total_products |-> Len(product_list),
               processing_time_seconds |-> seconds]]

\* open(filepath, 'w') and json.dump: a file of the same name is replaced
WriteFile(dir, file) == {f \in dir : f.filename # file.filename} \cup {file}

\* the entry list_exports makes of a file
ExportEntry(file) ==
    [filename |-> file.filename,
     filepath |-> file.filename,
     extraction_id |-> file.data.extraction_id,
     timestamp |-> file.data.timestamp,
     total_products |-> file.data.total_products,
     source_image |-> file.data.source_image]

\* sorted(glob, key=st_mtime, reverse=True): the orders it can give; glob
\* lists the files in any order and the sort keeps that order among files
\* of the same modification time
NewestFirst(dir) ==
    {order \in [1..Cardinality(dir) -> dir] :
        /\ \A j, k \in 1..Cardinality(dir) : j # k => order[j] # order[k]
        /\ \A j, k \in 1..Cardinality(dir) : j < k => order[j].mtime >= order[k].mtime}

\* ExportService.list_exports(limit), limit >= 0: the lists it can return
ListExports(dir, limit) ==
    {[k \in 1..Min({limit, Cardinality(dir)}) |-> ExportEntry(order[k])] :
        order \in NewestFirst(dir)}

\* list_exports(limit=100) of get_extraction (app/api/routes.py)
LookupLimit == 100

\* the files sorted(glob, key=st_mtime, reverse=True)[:limit] can hold: a
\* file is among the first limit of some newest-first order when fewer than
\* limit files are newer than it
CanList(dir, limit) ==
    {f \in dir : Cardinality({g \in dir : g.mtime > f.mtime}) < limit}

\* the files the slice can leave out: those that limit other files at least
\* as new can stand before
CanSkip(dir, limit) ==
    {f \in dir : Cardinality({g \in dir : g # f /\ g.mtime >= f.mtime}) >= limit}

\* get_extraction(extraction_id) (app/api/routes.py): the responses it can
\* give; load_from_json of a listed file gives the data of the file
GetExtraction(dir, extraction_id) ==
    {[status |-> 200, extraction |-> f.data] :
        f \in {g \in CanList(dir, LookupLimit) : g.data.extraction_id = extraction_id}}
    \cup (IF \A f \in dir : f.data.extraction_id = extraction_id
                               => f \in CanSkip(dir, LookupLimit)
          THEN {[status |-> 404]}
          ELSE {})

(***************************************************************************)
(* Extraction endpoint (app/api/routes.py), the file validator             *)
(* (app/utils/validators.py) and the file handler                          *)
(* (app/utils/file_handler.py).  A request is a record of where its        *)
(* handler stands (at), the upload, the path the upload was saved under    *)
(* (0 when none was), the number of cleanup_file calls on that path,       *)
(* whether OCR ran, how the inner try block ended and the HTTP status.     *)
(***************************************************************************)
\* settings.MAX_UPLOAD_SIZE and settings.ALLOWED_EXTENSIONS
MaxUploadSize == 10485760
AllowedExtensions == {".jpg", ".jpeg", ".png", ".pdf"}

\* FileValidator.validate_file: whether the upload is valid
ValidateFile(extension, file_size) ==
    extension \in AllowedExtensions /\ file_size <= MaxUploadSize

\* the statements of the inner try block of extract_products, in order, and
\* the statement each is followed by
InnerSteps == <<"preprocess", "extract_text", "parse_products", "export_to_json", "respond">>

\* where control goes when a statement raises, with no finally clause
OuterHandlerOnly(at) == "except"

\* where control goes when the statement at raises: to the finally clause from
\* inside the inner try block, to the except clause otherwise
HandlerOf(at) ==
    IF \E k \in 1..Len(InnerSteps) : InnerSteps[k] = at THEN "finally" ELSE "except"

\* a request whose handler has not started
NewRequest ==
    [at |-> "idle", extension |-> "", file_size |-> 0, filepath |-> 0,
     cleanups |-> 0, ocr_ran |-> FALSE, pending |-> "none", status |-> 0]

(***************************************************************************)
(* The inputs.                                                             *)
(***************************************************************************)
\* the most fragments a text is put together from
MaxFrags == 4
\* the most detections of an input list
MaxDetections == 3
\* the most detections of an input list around a single price
MaxCrowd == 12
\* the most detections around a single price that are not the usual neighbour
MaxOdd == 1
\* the longest product name, in characters, that still grows
MaxNameLen == 5

FragPool ==
    {<<"$">>, <<"$"," ">>, <<"3",".","4","9">>, <<"5">>, <<" ","p","e","r"," ">>, <<" ","P","e","r"," ">>, <<"k","g">>, <<"(">>, <<")">>, <<" ">>}

\* the slots of a text "$A ($B per U)" and of its near misses
FormA == {<<"3",".","4","9">>, <<"1","2",".","5","0">>}
FormOpen == {<<" ","(">>, <<" ">>}
FormDollar == {<<"$">>, <<>>}
FormB == {<<"1","3",".","9","6">>, <<"0",".","5","0">>}
FormSep == {<<" ","p","e","r"," ">>, <<"/">>, <<" ","P","E","R"," ">>, <<" ">>}
FormU == {<<"k","g">>, <<"K","G">>, <<"1","0","0","g">>, <<"e","a","c","h">>}
FormClose == {<<")">>, <<>>}

FormText(f) == <<"$">> \o f.a \o f.open \o f.dollar \o f.b \o f.sep \o f.u \o f.close

Box(x1, y1, x2, y2) == [top_left |-> <<x1, y1>>, bottom_right |-> <<x2, y2>>]

\* the boxes of the fixture sample_ocr_results (tests/unit/test_parser_service.py)
\* and one box far from them
BoxTitle == Box(10, 10, 100, 30)
BoxMiddle == Box(10, 35, 80, 50)
BoxPrice == Box(10, 55, 70, 70)
BoxFar == Box(400, 10, 490, 30)

Detection(b, t, c) == [bbox |-> b, text |-> t, confidence |-> c]

FreshApples == Detection(BoxTitle, <<"F","r","e","s","h"," ","A","p","p","l","e","s">>, 95)
Qty250g == Detection(BoxMiddle, <<"2","5","0","g">>, 92)
Price349 == Detection(BoxPrice, <<"$","3",".","4","9">>, 98)
FreshA == Detection(BoxTitle, <<"F","r","e","s","h"," ","A">>, 90)
ZeroUnitPrice == Detection(BoxMiddle, <<"$","0",".","0","0"," ","p","e","r"," ","k","g">>, 92)
PriceTooHigh == Detection(BoxPrice, <<"$","1","0","0","0","1">>, 98)
ApplesFar == Detection(BoxFar, <<"A","p","p","l","e","s">>, 80)
ApplesNear == Detection(BoxTitle, <<"A","p","p","l","e","s">>, 80)
PearsNear == Detection(BoxMiddle, <<"P","e","a","r","s">>, 85)
PearsFar == Detection(BoxFar, <<"P","e","a","r","s"," ","$","2">>, 85)

DetectionPool ==
    {FreshApples, Qty250g, Price349, FreshA, ZeroUnitPrice, PriceTooHigh, ApplesFar,
     PearsFar}

OddPool == {PearsNear, ApplesFar}

\* the pieces product names are put together from
NamePool ==
    {<<"f","r","e">>, <<"s","h">>, <<".">>, <<" ">>, <<"A">>, <<DottedI>>,
     <<"2","5","0","g">>, <<"2"," ","L">>}

\* prices, in cents, around the two limits of is_valid_price
PricePool == {-100, 0, 1, 349, 99, 9999, 999999, 1000000, 1000001, 1500000}

\* the arguments of calculate_unit_price: amounts in cents, quantities, units
TotalPool == {-100, 0, 100, 349, 599}
QuantityPool == {-1, 0, 1, 2, 250}
UnitPool ==
    {<<"g">>, <<"G">>, <<"k","g">>, <<"L">>, <<"m","l">>, <<"1","0","0","g">>,
     <<"l","b">>, <<"e","a","c","h">>, <<" ","g"," ">>,
     <<"g","r","a","m","s">>, <<"l","i","t","r","e","s">>, <<"L","i","t","r","e">>}

\* the arguments of validate_unit_price
ValidatedTotalPool == {0, 100, 349}
ValidatedQuantityPool == {0, 1, 250}
ValidatedUnitPool == {<<"g">>, <<"k","g">>, <<"e","a","c","h">>}
UnitPricePool == {90, 100, 110, 1386, 1396, 1406, 2000}
TolerancePool == {0, 10}

\* sample_products[0] of the export tests; its id is opaque
SampleProduct ==
    [id |-> 1,
     name |-> <<"F","r","e","s","h"," ","A","p","p","l","e","s">>,
     description |-> <<"2","5","0","g">>,
     price |-> 349,
     unit_price |-> 1396,
     unit |-> <<"p","e","r"," ","k","g">>,
     currency |-> <<"A","U","D">>,
     special_offer |-> <<"S","u","p","e","r"," ","S","a","v","e","r">>,
     position |-> [x |-> 10, y |-> 10, width |-> 100, height |-> 50],
     confidence |-> [num |-> 95, den |-> 100]]

\* the same product with the required fields only
PlainProduct ==
    [SampleProduct EXCEPT !.description = NoneS, !.unit_price = None, !.unit = NoneS,
                          !.special_offer = NoneS, !.position = NoneT]

\* the same product with an empty description
BlankDescription == [SampleProduct EXCEPT !.description = <<>>]

ProductPool == <<SampleProduct, PlainProduct, BlankDescription>>

\* the most calls of export_to_json and the latest time of the clock
MaxCalls == 3
MaxTime == 3

\* the arguments of export_to_json and of list_exports
ImagePool == {"test_0.jpg", "test_1.jpg"}
ProductListPool == {<<>>, <<SampleProduct>>}
LimitPool == {1, 2, 10}

\* the most detections of an input list scattered over the page
MaxScatter == 5

\* detections without a number whose centers are 150 px right of and 149 px
\* below the center of the title box
Right150 == Detection(Box(160, 10, 250, 30), <<"P","e","a","r","s">>, 85)
Below149 == Detection(Box(10, 159, 100, 179), <<"F","i","g","s">>, 85)

ScatterPool == {ApplesNear, Right150, Below149, ApplesFar, Price349}

\* the most member detections of a region whose name is extracted
MaxMembers == 3

\* boxes of area 5000 and 1200, and the texts of member detections
BoxLarge == Box(0, 0, 100, 50)
BoxSmall == Box(0, 60, 60, 80)
MemberTexts ==
    {<<"$","3",".","4","9">>,
     <<"F","r","e","s","h"," ","A","p","p","l","e","s"," ","$","3",".","4","9">>,
     <<"A"," ","5">>,
     <<" ","K","g"," ","1","2"," ">>,
     <<"a"," ","b"," ","c"," ","d"," "," ","e"," ","f"," ","g"," ","h"," ","i">>}
MemberPool == {Detection(b, t, 90) : b \in {BoxLarge, BoxSmall}, t \in MemberTexts}

\* the most detections of a list that is parsed in several orders
MaxShuffled == 3

\* three anchors, one of them far from the others, and two names in one box
ShuffledPool == {FreshApples, ApplesNear, Qty250g, Price349, PearsFar}

\* the most exports of a directory that is looked up in
MaxExports == 101

\* the most extract_products requests in progress
MaxRequests == 2

\* the uploads: extensions and sizes in bytes
ExtensionPool == {".jpg", ".txt"}
FileSizePool == {1024, MaxUploadSize + 1}

(***************************************************************************)
(* The state machine.                                                      *)
(***************************************************************************)
Init ==
    /\ text = <<>>
    /\ frags = <<>>
    /\ form = NoneT
    /\ price_out = None
    /\ unit_out = NoneT
    /\ pc = "build"
    /\ ocr_results = <<>>
    /\ regions = <<>>
    /\ outcomes = <<>>
    /\ products = <<>>
    /\ fb_regions = <<>>
    /\ phase = "input"
    /\ raw = <<>>
    /\ name_out = <<>>
    /\ split_out = NoneT
    /\ stage = "build"
    /\ op = "none"
    /\ call = NoneT
    /\ returned = NoneT
    /\ now = 0
    /\ directory = {}
    /\ calls = <<>>
    /\ requests = [r \in 1..MaxRequests |-> NewRequest]
    /\ input_dir = {}

\* one more fragment of the text
AppendFragment ==
    /\ pc = "build"
    /\ form = NoneT
    /\ Len(frags) < MaxFrags
    /\ \E f \in FragPool :
        /\ frags' = Append(frags, f)
        /\ text' = text \o f
    /\ UNCHANGED <<more, form, price_out, unit_out, pc,
                   ocr_results, regions, outcomes, products, fb_regions, phase>>

\* a text of the form "$A ($B per U)", or a near miss of it
ChooseForm ==
    /\ pc = "build"
    /\ frags = <<>>
    /\ form = NoneT
    /\ \E a \in FormA, open \in FormOpen, dollar \in FormDollar, b \in FormB,
          sep \in FormSep, u \in FormU, close \in FormClose :
        /\ form' = [a |-> a, open |-> open, dollar |-> dollar, b |-> b,
                    sep |-> sep, u |-> u, close |-> close]
        /\ text' = FormText(form')
    /\ UNCHANGED <<more, frags, price_out, unit_out, pc,
                   ocr_results, regions, outcomes, products, fb_regions, phase>>

\* PriceExtractor.extract_price(text, True) and extract_unit_price(text)
Extract ==
    /\ pc = "build"
    /\ price_out' = ExtractPrice(text, TRUE)
    /\ unit_out' = ExtractUnitPrice(text)
    /\ pc' = "done"
    /\ UNCHANGED <<more, text, frags, form,
                   ocr_results, regions, outcomes, products, fb_regions, phase>>

\* one more detection of the input list
AddDetection ==
    /\ phase = "input"
    /\ Len(ocr_results) < MaxDetections
    /\ \E d \in DetectionPool : ocr_results' = Append(ocr_results, d)
    /\ UNCHANGED <<more, text, frags, form, price_out, unit_out, pc,
                   regions, outcomes, products, fb_regions, phase>>

\* ProductParser.parse_products(ocr_results)
Parse ==
    /\ phase = "input"
    /\ regions' = FindPriceRegions(ocr_results)
    /\ outcomes' = Outcomes(ocr_results, regions')
    /\ products' = ProductsOf(outcomes')
    /\ phase' = "parsed"
    /\ UNCHANGED <<more, text, frags, form, price_out, unit_out, pc,
                   ocr_results, fb_regions>>

\* ProductParser._fallback_spatial_clustering(ocr_results)
Fallback ==
    /\ phase = "input"
    /\ fb_regions' = FallbackSpatialClustering(ocr_results)
    /\ phase' = "clustered"
    /\ UNCHANGED <<more, text, frags, form, price_out, unit_out, pc,
                   ocr_results, regions, outcomes, products>>

Odd(rs) == {i \in 1..Len(rs) : rs[i] \in OddPool}

\* one more detection without a digit beside the price
AddNeighbour ==
    /\ phase = "input"
    /\ Len(ocr_results) < MaxCrowd
    /\ ocr_results' = Append(ocr_results, ApplesNear)
    /\ UNCHANGED <<more, text, frags, form, price_out, unit_out, pc,
                   regions, outcomes, products, fb_regions, phase>>

\* the one detection that bears the price
AddPrice ==
    /\ phase = "input"
    /\ Len(ocr_results) < MaxCrowd
    /\ \A i \in 1..Len(ocr_results) : ocr_results[i] # Price349
    /\ ocr_results' = Append(ocr_results, Price349)
    /\ UNCHANGED <<more, text, frags, form, price_out, unit_out, pc,
                   regions, outcomes, products, fb_regions, phase>>

\* a detection in another box, near or far
AddOdd ==
    /\ phase = "input"
    /\ Len(ocr_results) < MaxCrowd
    /\ Cardinality(Odd(ocr_results)) < MaxOdd
    /\ \E d \in OddPool : ocr_results' = Append(ocr_results, d)
    /\ UNCHANGED <<more, text, frags, form, price_out, unit_out, pc,
                   regions, outcomes, products, fb_regions, phase>>

\* one more piece of the product name
AppendPiece ==
    /\ stage = "build"
    /\ Len(raw) < MaxNameLen
    /\ \E piece \in NamePool : raw' = raw \o piece
    /\ UNCHANGED <<name_out, split_out, stage, priceVars, parseVars, callVars, exportVars, requestVars>>

\* TextCleaner.clean_product_name(raw)
CleanName ==
    /\ stage = "build"
    /\ name_out' = CleanProductName(raw)
    /\ stage' = "cleaned"
    /\ UNCHANGED <<raw, split_out, priceVars, parseVars, callVars, exportVars, requestVars>>

\* TextCleaner.extract_quantity_from_name(raw)
SplitQuantity ==
    /\ stage = "build"
    /\ split_out' = ExtractQuantityFromName(raw)
    /\ stage' = "split"
    /\ UNCHANGED <<raw, name_out, priceVars, parseVars, callVars, exportVars, requestVars>>

\* PriceValidator.is_valid_price(price)
CallIsValidPrice ==
    /\ op = "none"
    /\ \E price \in PricePool :
        /\ call' = [price |-> price]
        /\ returned' = IsValidPrice(price)
    /\ op' = "is_valid_price"
    /\ UNCHANGED <<priceVars, parseVars, nameVars, exportVars, requestVars>>

\* UnitPriceCalculator.calculate_unit_price(total_price, quantity, unit)
CallCalculateUnitPrice ==
    /\ op = "none"
    /\ \E total_price \in TotalPool, quantity \in QuantityPool, unit \in UnitPool :
        /\ call' = [total_price |-> total_price, quantity |-> quantity, unit |-> unit]
        /\ returned' \in CalculateUnitPrice(total_price, quantity, unit)
    /\ op' = "calculate_unit_price"
    /\ UNCHANGED <<priceVars, parseVars, nameVars, exportVars, requestVars>>

\* UnitPriceCalculator.validate_unit_price(total_price, unit_price, quantity,
\* unit, tolerance)
CallValidateUnitPrice ==
    /\ op = "none"
    /\ \E total_price \in ValidatedTotalPool, unit_price \in UnitPricePool,
          quantity \in ValidatedQuantityPool, unit \in ValidatedUnitPool,
          tolerance \in TolerancePool :
        /\ call' = [total_price |-> total_price, unit_price |-> unit_price,
                    quantity |-> quantity, unit |-> unit, tolerance |-> tolerance]
        /\ returned' \in ValidateUnitPrice(total_price, unit_price, quantity, unit, tolerance)
    /\ op' = "validate_unit_price"
    /\ UNCHANGED <<priceVars, parseVars, nameVars, exportVars, requestVars>>

\* Product(**exporter._product_to_dict(product)) for a hand-made product
RoundTripSample ==
    /\ op = "none"
    /\ \E k \in 1..Len(ProductPool) :
        /\ call' = [product |-> ProductPool[k]]
        /\ \E product_dict \in ProductToDict(ProductPool[k]) :
            returned' = ParseProductDict(product_dict)
    /\ op' = "round_trip"
    /\ UNCHANGED <<priceVars, parseVars, nameVars, exportVars, requestVars>>

\* Product(**exporter._product_to_dict(product)) for a product the parser
\* returned
RoundTripParsed ==
    /\ op = "none"
    /\ phase = "parsed"
    /\ \E k \in 1..Len(products) :
        /\ call' = [product |-> products[k]]
        /\ \E product_dict \in ProductToDict(products[k]) :
            returned' = ParseProductDict(product_dict)
    /\ op' = "round_trip"
    /\ UNCHANGED <<priceVars, parseVars, nameVars, exportVars, requestVars>>

\* PriceExtractor.extract_all_prices(text)
CallExtractAllPrices ==
    /\ pc = "build"
    /\ op = "none"
    /\ call' = [text |-> text]
    /\ returned' = ExtractAllPrices(text)
    /\ op' = "extract_all_prices"
    /\ pc' = "done"
    /\ UNCHANGED <<text, frags, form, price_out, unit_out, parseVars, nameVars, exportVars, requestVars>>

\* the clock goes on; nothing in export_to_json waits for it
Tick ==
    /\ op = "none"
    /\ now < MaxTime
    /\ now' = now + 1
    /\ UNCHANGED <<directory, calls, priceVars, parseVars, nameVars, callVars, requestVars>>

\* ExportService.export_to_json(products, source_image, 5.5)
ExportToJson ==
    /\ op = "none"
    /\ Len(calls) < MaxCalls
    /\ \E product_list \in ProductListPool, source_image \in ImagePool :
        /\ \E dicts \in ProductDicts(product_list), seconds \in RoundToCents(5500, 10) :
            directory' = WriteFile(directory,
                ExportFile(now, Len(calls) + 1, product_list, dicts, source_image, 5500, seconds))
        /\ calls' = Append(calls, [extraction_id |-> Len(calls) + 1,
                                   source_image |-> source_image])
    /\ UNCHANGED <<now, priceVars, parseVars, nameVars, callVars, requestVars>>

\* ExportService.list_exports(limit)
CallListExports ==
    /\ op = "none"
    /\ \E limit \in LimitPool :
        /\ call' = [limit |-> limit]
        /\ returned' \in ListExports(directory, limit)
    /\ op' = "list_exports"
    /\ UNCHANGED <<exportVars, priceVars, parseVars, nameVars, requestVars>>

\* one more detection somewhere on the page
AddScattered ==
    /\ phase = "input"
    /\ Len(ocr_results) < MaxScatter
    /\ \E d \in ScatterPool : ocr_results' = Append(ocr_results, d)
    /\ UNCHANGED <<more, text, frags, form, price_out, unit_out, pc,
                   regions, outcomes, products, fb_regions, phase>>

\* one more member detection of the region
AddMember ==
    /\ phase = "input"
    /\ op = "none"
    /\ Len(ocr_results) < MaxMembers
    /\ \E d \in MemberPool : ocr_results' = Append(ocr_results, d)
    /\ UNCHANGED <<more, text, frags, form, price_out, unit_out, pc,
                   regions, outcomes, products, fb_regions, phase>>

\* ProductParser._extract_product_name_lenient(region, region.combined_text)
\* for the region of all the detections
CallExtractProductNameLenient ==
    /\ op = "none"
    /\ ocr_results # <<>>
    /\ call' = [region |-> Indices(ocr_results)]
    /\ returned' = ExtractProductNameLenient(ocr_results, Indices(ocr_results),
                       CombinedText(ocr_results, Indices(ocr_results)))
    /\ op' = "extract_product_name_lenient"
    /\ UNCHANGED <<priceVars, parseVars, nameVars, exportVars, requestVars>>

\* one more detection of a list that is parsed in several orders
AddShuffled ==
    /\ phase = "input"
    /\ Len(ocr_results) < MaxShuffled
    /\ \E d \in ShuffledPool : ocr_results' = Append(ocr_results, d)
    /\ UNCHANGED <<more, text, frags, form, price_out, unit_out, pc,
                   regions, outcomes, products, fb_regions, phase>>

\* the orders a list of n detections can be put in
OrdersOf(n) ==
    {p \in [1..n -> 1..n] : \A i, j \in 1..n : i # j => p[i] # p[j]}

\* ProductParser.parse_products on the same detections in another order
ParsePermutation ==
    /\ phase = "parsed"
    /\ op = "none"
    /\ \E p \in OrdersOf(Len(ocr_results)) :
        /\ call' = [order |-> p]
        /\ returned' = ParseProducts([i \in 1..Len(ocr_results) |-> ocr_results[p[i]]])
    /\ op' = "parse_products"
    /\ UNCHANGED <<priceVars, parseVars, nameVars, exportVars, requestVars>>

\* ExportService.export_to_json([], "test_0.jpg", 5.5) at a later time than
\* every call before it
ExportLater ==
    /\ op = "none"
    /\ Len(calls) < MaxExports
    /\ now' = now + 1
    /\ \E seconds \in RoundToCents(5500, 10) :
        directory' = WriteFile(directory,
            ExportFile(now', Len(calls) + 1, <<>>, <<>>, "test_0.jpg", 5500, seconds))
    /\ calls' = Append(calls, [extraction_id |-> Len(calls) + 1,
                               source_image |-> "test_0.jpg"])
    /\ UNCHANGED <<priceVars, parseVars, nameVars, callVars, requestVars>>

\* get_extraction(extraction_id) for an id that was given or one that was not
CallGetExtraction ==
    /\ op = "none"
    /\ \E extraction_id \in 1..(Len(calls) + 1) :
        /\ call' = [extraction_id |-> extraction_id]
        /\ returned' \in GetExtraction(directory, extraction_id)
    /\ op' = "get_extraction"
    /\ UNCHANGED <<exportVars, priceVars, parseVars, nameVars, requestVars>>

\* the request r with its record changed
Moved(r, record) == [requests EXCEPT ![r] = record]

\* the request arrives: file.read() gives the content of the upload
ReceiveUpload(r) ==
    /\ requests[r].at = "idle"
    /\ \E extension \in ExtensionPool, file_size \in FileSizePool :
        requests' = Moved(r, [requests[r] EXCEPT !.at = "validate",
                                                  !.extension = extension,
                                                  !.file_size = file_size])
    /\ UNCHANGED <<input_dir, priceVars, parseVars, nameVars, callVars, exportVars>>

\* FileValidator.validate_file and the HTTPException(400), which the clause
\* "except HTTPException: raise" lets through
ValidateUpload(r) ==
    /\ requests[r].at = "validate"
    /\ requests' = Moved(r,
        IF ValidateFile(requests[r].extension, requests[r].file_size)
        THEN [requests[r] EXCEPT !.at = "get_services"]
        ELSE [requests[r] EXCEPT !.at = "raised", !.status = 400])
    /\ UNCHANGED <<input_dir, priceVars, parseVars, nameVars, callVars, exportVars>>

\* get_services(): the services are made, or making one raises
GetServices(r) ==
    /\ requests[r].at = "get_services"
    /\ \E ok \in BOOLEAN :
        requests' = Moved(r, [requests[r] EXCEPT
            !.at = IF ok THEN "save_upload" ELSE HandlerOf("get_services")])
    /\ UNCHANGED <<input_dir, priceVars, parseVars, nameVars, callVars, exportVars>>

\* handler.save_upload_sync: the upload is saved under a fresh name, which
\* the number of the request stands for, or the call raises
SaveUploadSync(r) ==
    /\ requests[r].at = "save_upload"
    /\ \E ok \in BOOLEAN :
        IF ok
        THEN /\ requests' = Moved(r, [requests[r] EXCEPT !.at = InnerSteps[1],
                                                          !.filepath = r])
             /\ input_dir' = input_dir \cup {r}
        ELSE /\ requests' = Moved(r, [requests[r] EXCEPT
                                         !.at = HandlerOf("save_upload")])
             /\ UNCHANGED input_dir
    /\ UNCHANGED <<priceVars, parseVars, nameVars, callVars, exportVars>>

\* one statement of the inner try block: processor.preprocess,
\* ocr.extract_text, parser.parse_products, exporter.export_to_json or the
\* return of ExtractionResponse(...); it goes through or raises
InnerStep(r) ==
    /\ \E k \in 1..Len(InnerSteps) :
        /\ requests[r].at = InnerSteps[k]
        /\ \E ok \in BOOLEAN :
            requests' = Moved(r, [requests[r] EXCEPT
                !.ocr_ran = @ \/ InnerSteps[k] = "extract_text",
                !.at = IF ok /\ k < Len(InnerSteps) THEN InnerSteps[k + 1]
                       ELSE IF ok THEN "finally"
                       ELSE HandlerOf(InnerSteps[k]),
                !.pending = IF ok /\ k = Len(InnerSteps) THEN "return"
                            ELSE IF ok THEN "none"
                            ELSE "raise"])
    /\ UNCHANGED <<input_dir, priceVars, parseVars, nameVars, callVars, exportVars>>

\* the finally clause: handler.cleanup_file(filepath), which deletes the file
\* or fails to and returns False; then the return value is returned or the
\* exception goes on to the except clause
CleanupFile(r) ==
    /\ requests[r].at = "finally"
    /\ requests' = Moved(r, [requests[r] EXCEPT
            !.cleanups = @ + 1,
            !.at = IF requests[r].pending = "return" THEN "returned" ELSE "except",
            !.status = IF requests[r].pending = "return" THEN 200 ELSE @])
    /\ \E deleted \in BOOLEAN :
        input_dir' = IF deleted THEN input_dir \ {requests[r].filepath} ELSE input_dir
    /\ UNCHANGED <<priceVars, parseVars, nameVars, callVars, exportVars>>

\* the clause "except Exception": HTTPException(500)
ExceptClause(r) ==
    /\ requests[r].at = "except"
    /\ requests' = Moved(r, [requests[r] EXCEPT !.at = "raised", !.status = 500])
    /\ UNCHANGED <<input_dir, priceVars, parseVars, nameVars, callVars, exportVars>>

\* the parser on lists of a few detections of any kind
Next == AddDetection \/ Parse \/ Fallback
Spec == Init /\ [][Next]_vars

\* the price extractor on texts
NextPrice == AppendFragment \/ ChooseForm \/ Extract
SpecPrice == Init /\ [][NextPrice]_vars

\* the text cleaner on product names
NextName == AppendPiece \/ CleanName \/ SplitQuantity
SpecName == Init /\ [][NextName]_vars

\* the price validator and the unit price calculator on amounts in cents
NextCalc == CallIsValidPrice \/ CallCalculateUnitPrice \/ CallValidateUnitPrice
SpecCalc == Init /\ [][NextCalc]_vars

\* the parser followed by the export of a product and its way back
NextTrip == AddDetection \/ Parse \/ RoundTripSample \/ RoundTripParsed
SpecTrip == Init /\ [][NextTrip]_vars

\* extract_all_prices on texts
NextAll == AppendFragment \/ ChooseForm \/ CallExtractAllPrices
SpecAll == Init /\ [][NextAll]_vars

\* the export service on one output directory
NextExport == Tick \/ ExportToJson \/ CallListExports
SpecExport == Init /\ [][NextExport]_vars

\* the parser on detections scattered over the page
NextScatter == AddScattered \/ Parse
SpecScatter == Init /\ [][NextScatter]_vars

\* the name extraction on regions of a few members
NextLenient == AddMember \/ CallExtractProductNameLenient
SpecLenient == Init /\ [][NextLenient]_vars

\* the parser on a list and on the same list in another order
NextPermute == AddShuffled \/ Parse \/ ParsePermutation
SpecPermute == Init /\ [][NextPermute]_vars

\* look-ups in an output directory that grows
NextLookup == ExportLater \/ CallGetExtraction
SpecLookup == Init /\ [][NextLookup]_vars

\* the handlers of extract_products requests, interleaved
NextRequests ==
    \E r \in 1..MaxRequests :
        \/ ReceiveUpload(r)
        \/ ValidateUpload(r)
        \/ GetServices(r)
        \/ SaveUploadSync(r)
        \/ InnerStep(r)
        \/ CleanupFile(r)
        \/ ExceptClause(r)
SpecRequests == Init /\ [][NextRequests]_vars

\* the parser on a crowd of detections around one price
NextCrowd == AddNeighbour \/ AddPrice \/ AddOdd \/ Parse
SpecCrowd == Init /\ [][NextCrowd]_vars

(***************************************************************************)
(* Properties of the clusterer and of the parser.                          *)
(***************************************************************************)
\* whether the phrase w stands somewhere in s
Contains(s, w) == \E i \in 1..Len(s) : At(s, i, w)

\* whether the text has a digit
HasDigit(t) == \E i \in 1..Len(t) : IsDigit(t[i])

\* the input list has a valid price anchor and has been parsed
ParsedWithAnchor == phase = "parsed" /\ \E i \in 1..Len(ocr_results) : IsPriceResult(ocr_results[i])

\* C1: after price-anchored clustering no detection is a member of two
\* regions: the member lists are pairwise disjoint.
C1_RegionsDisjoint ==
    ParsedWithAnchor =>
        \A i, j \in 1..Len(regions) :
            i # j => Range(regions[i]) \cap Range(regions[j]) = {}

\* the input list is one price detection and others without a digit, each
\* within the anchor radius of the price detection
OnePriceCrowd ==
    \E a \in 1..Len(ocr_results) :
        /\ IsPriceResult(ocr_results[a])
        /\ \A i \in 1..Len(ocr_results) :
            i # a =>
                /\ ~HasDigit(ocr_results[i].text)
                /\ DistSq(Center(ocr_results[a].bbox), Center(ocr_results[i].bbox))
                     < Radius * Radius

\* one region, and all the detections in it
OneRegionOfAll ==
    /\ Len(regions) = 1
    /\ Range(regions[1]) = 1..Len(ocr_results)

\* C2 as the specification states it: for every N >= 1, one price detection
\* with N - 1 digit-free detections within the radius gives exactly one
\* region, which contains all N detections.
C2_OneRegionOfAllAnyN ==
    (phase = "parsed" /\ OnePriceCrowd) => OneRegionOfAll

\* C2, amended: the same for N <= 11, the anchor and the 10 nearest; for a
\* larger N the one region has 11 members only, the anchor among them.
C2_OneRegionUpToCap ==
    (phase = "parsed" /\ OnePriceCrowd) =>
        /\ Len(ocr_results) <= 1 + MaxNeighbours => OneRegionOfAll
        /\ Len(ocr_results) > 1 + MaxNeighbours =>
            /\ Len(regions) = 1
            /\ Len(regions[1]) = 1 + MaxNeighbours
            /\ IsPriceResult(ocr_results[regions[1][1]])

\* C2 witness: a crowd of exactly 11 detections parsed into one region of 11
C2_CrowdOfElevenParsed ==
    /\ phase = "parsed"
    /\ OnePriceCrowd
    /\ Len(ocr_results) = 1 + MaxNeighbours
    /\ Len(regions) = 1
    /\ Len(regions[1]) = 1 + MaxNeighbours

\* C3: parse_products on "Fresh Apples", "250g", "$3.49" in their three close
\* boxes returns exactly one Product, whose name contains "Apples", whose
\* price is 3.49 and whose description is "250g".
C3_FixtureGivesApples250g ==
    (phase = "parsed" /\ ocr_results = <<FreshApples, Qty250g, Price349>>) =>
        /\ Len(products) = 1
        /\ Contains(products[1].name, <<"A","p","p","l","e","s">>)
        /\ products[1].price = 349
        /\ products[1].description = <<"2","5","0","g">>

\* C4: the unit price never causes a region to be dropped: a region whose
\* record has a valid price, a name of at least 2 characters and a valid
\* position is not rejected.
C4_UnitPriceNeverGates ==
    phase = "parsed" =>
        \A i \in 1..Len(outcomes) :
            outcomes[i].kind = "raised" =>
                ~(/\ IsValidPrice(outcomes[i].rejected.price)
                  /\ Len(outcomes[i].rejected.name) >= 2
                  /\ PositionValid(outcomes[i].rejected.position))

\* C5: every Product parse_products returns has a name of at least 2
\* characters, so validate_product reports no invalid name for it.
C5_NamesAtLeastTwo ==
    phase = "parsed" =>
        \A k \in 1..Len(products) :
            /\ Len(products[k].name) >= 2
            /\ "Invalid product name" \notin ValidateProduct(products[k])

\* the price _extract_product_from_region reads in region number i
RegionPrice(i) == LenientPrice(CombinedText(ocr_results, regions[i]))

\* C6: every Product parse_products returns has a price p with
\* 0 < p <= 10000, and a region with no such price yields no Product.
C6_PricesInRange ==
    phase = "parsed" =>
        /\ \A k \in 1..Len(products) :
            products[k].price > 0 /\ products[k].price <= 100 * MaxPrice
        /\ \A i \in 1..Len(regions) :
            ~(RegionPrice(i) > 0 /\ RegionPrice(i) <= 100 * MaxPrice)
                => outcomes[i].kind = "none"

\* C6 witness: a parse that returned a Product and dropped a region whose
\* price is above the ceiling
C6_ProductAndRegionAboveCeiling ==
    /\ phase = "parsed"
    /\ Len(products) >= 1
    /\ \E i \in 1..Len(regions) :
        RegionPrice(i) > 100 * MaxPrice /\ outcomes[i].kind = "none"

\* C10: fallback clustering never returns a region of fewer than 2 members.
C10_FallbackRegionsAtLeastTwo ==
    phase = "clustered" => \A i \in 1..Len(fb_regions) : Len(fb_regions[i]) >= 2

\* C10 witness: a list clustered into at least one region, with a detection
\* that is in no region because nothing is near it
C10_ClusteredWithIsolated ==
    /\ phase = "clustered"
    /\ Len(fb_regions) >= 1
    /\ \E d \in 1..Len(ocr_results) :
        \A i \in 1..Len(fb_regions) : d \notin Range(fb_regions[i])

(***************************************************************************)
(* Properties of the price extractor.                                      *)
(***************************************************************************)
\* a well-formed "$D.DD" stands at i
TightDollarAt(s, i) == s[i] = "$" /\ AmountEnd(s, i + 1) > 0

\* "$", whitespace or none, and "D.DD" stand at i
LooseDollarAt(s, i) == s[i] = "$" /\ AmountEnd(s, SpaceRunEnd(s, i + 1)) > 0

\* the amount after the "$" at i, whitespace skipped
DollarValueAt(s, i) ==
    AmountValue(s, SpaceRunEnd(s, i + 1), AmountEnd(s, SpaceRunEnd(s, i + 1)))

\* the text has a "(" with a ")" after it
HasParenSpan(s) == \E i, j \in 1..Len(s) : i < j /\ s[i] = "(" /\ s[j] = ")"

\* the text has a "D.DD per WORD" or "D.DD/WORD" span as it stands
HasUnitSpan(s) == \E i \in 1..Len(s) : UnitSpanEnd(s, i) > 0

\* C7 as the specification states it: for every text with a well-formed
\* "$D.DD", extract_price returns the value of the first one.
C7_FirstDollarAmountAlways ==
    (pc = "done" /\ \E i \in 1..Len(text) : TightDollarAt(text, i)) =>
        price_out = DollarValueAt(text,
            CHOOSE i \in 1..Len(text) :
                /\ TightDollarAt(text, i)
                /\ \A j \in 1..(i - 1) : ~TightDollarAt(text, j))

\* C7, amended: for every text with a well-formed "$D.DD", without a
\* parenthesised span and without a "D.DD per WORD" or "D.DD/WORD" span,
\* extract_price returns the value of the first "$D.DD", whitespace allowed
\* after the "$".
C7_FirstDollarAmountOutsideSpans ==
    (/\ pc = "done"
     /\ \E i \in 1..Len(text) : TightDollarAt(text, i)
     /\ ~HasParenSpan(text)
     /\ ~HasUnitSpan(text)) =>
        price_out = DollarValueAt(text,
            CHOOSE i \in 1..Len(text) :
                /\ LooseDollarAt(text, i)
                /\ \A j \in 1..(i - 1) : ~LooseDollarAt(text, j))

\* C7 witness: a text whose first amount has whitespace after the "$" and
\* whose second is well-formed, extracted
C7_LooseThenTightExtracted ==
    /\ pc = "done"
    /\ ~HasParenSpan(text)
    /\ ~HasUnitSpan(text)
    /\ \E i, j \in 1..Len(text) :
        /\ i < j
        /\ LooseDollarAt(text, i) /\ ~TightDollarAt(text, i)
        /\ TightDollarAt(text, j)
    /\ price_out # None

\* the text has one "$", and extract_unit_price recognises the amount after
\* it as a unit price
OnlyDollarIsUnitPrice ==
    /\ Cardinality({i \in 1..Len(text) : text[i] = "$"}) = 1
    /\ unit_out # NoneT
    /\ \E i \in 1..Len(text) : DollarUnitAt(Lower(text), i)[4] > 0

\* C8: with exclude_unit_prices a unit price is never returned as the main
\* price: when the only dollar amount of the text is a unit price, in any
\* letter case, extract_price returns None.
C8_UnitPriceNeverMain ==
    (pc = "done" /\ OnlyDollarIsUnitPrice) => price_out = None

\* the text is "$A ($B per U)"
ExactForm ==
    /\ form # NoneT
    /\ form.open = <<" ","(">>
    /\ form.dollar = <<"$">>
    /\ form.sep = <<" ","p","e","r"," ">>
    /\ form.close = <<")">>

\* C9: for a text "$A ($B per U)" extract_price returns A and
\* extract_unit_price returns (B, U lower-cased); extract_unit_price returns
\* None for a text without a "D.DD per WORD" or "D.DD/WORD" span.
C9_MainAndUnitPrice ==
    pc = "done" =>
        /\ ExactForm =>
            /\ price_out = AmountValue(form.a, 1, Len(form.a) + 1)
            /\ unit_out = <<AmountValue(form.b, 1, Len(form.b) + 1), Lower(form.u)>>
        /\ ~HasUnitSpan(Lower(text)) => unit_out = NoneT

\* C9 witness: "$A ($B per KG)" extracted, the unit returned as "kg"
C9_UpperCaseUnitExtracted ==
    /\ pc = "done"
    /\ ExactForm
    /\ form.u = <<"K","G">>
    /\ unit_out # NoneT
    /\ unit_out[2] = <<"k","g">>

(***************************************************************************)
(* Further properties of the parser.                                       *)
(***************************************************************************)
\* the regions that ended in a Product
ProductRegions == {i \in 1..Len(outcomes) : outcomes[i].kind = "product"}

\* C11: an exception raised for one region is caught at that region: every
\* region has its outcome, and the Products of the regions that gave one are
\* all returned, in region order.
C11_RaisedRegionSkipped ==
    phase = "parsed" =>
        /\ Len(outcomes) = Len(regions)
        /\ Len(products) = Cardinality(ProductRegions)
        /\ \A k \in 1..Len(products) :
            products[k] = outcomes[Kth(ProductRegions, k)].product

\* C11 witness: a region that raised, and a later region whose Product was
\* returned
C11_ProductAfterRaise ==
    /\ phase = "parsed"
    /\ \E i, j \in 1..Len(outcomes) :
        /\ i < j
        /\ outcomes[i].kind = "raised"
        /\ outcomes[j].kind = "product"
        /\ \E k \in 1..Len(products) : products[k] = outcomes[j].product

\* C12: clean_product_name is idempotent: cleaning a cleaned name gives the
\* same name.
C12_CleanIdempotent ==
    stage = "cleaned" => CleanProductName(name_out) = name_out

(***************************************************************************)
(* Properties of the price validator and of the unit price calculator.     *)
(***************************************************************************)
\* C13: is_valid_price(p) is true exactly when 0 < p <= 10000; 10000 itself
\* is valid.
C13_ValidExactlyInRange ==
    op = "is_valid_price" =>
        (returned <=> (0 < call.price /\ call.price <= 100 * 10000))

\* C13 witness: is_valid_price was called with 10000 and returned True
C13_CeilingAccepted ==
    /\ op = "is_valid_price"
    /\ call.price = 100 * 10000
    /\ returned = TRUE

\* the conversion factor of a unit: the table entry of the case-folded unit,
\* blanks around it aside, and 1 for a unit of neither table
FactorOf(unit) ==
    Let(Strip(Lower(unit)), LAMBDA key :
        IF key \in DOMAIN WEIGHT_CONVERSIONS THEN WEIGHT_CONVERSIONS[key]
        ELSE IF key \in DOMAIN VOLUME_CONVERSIONS THEN VOLUME_CONVERSIONS[key]
        ELSE [num |-> 1, den |-> 1])

\* whether cents is total_price / (quantity * factor) rounded to whole cents:
\* no other number of cents is nearer to the quotient
IsRoundedQuotient(cents, total_price, quantity, factor) ==
    Let2(total_price * factor.den, quantity * factor.num, LAMBDA num, den :
    Let(cents * den - num, LAMBDA off :
        2 * off <= den /\ -2 * off <= den))

\* C14: calculate_unit_price returns None exactly when total_price <= 0 or
\* quantity <= 0, and otherwise total_price / (quantity * factor) rounded to
\* two decimals, the factor being the table entry of the case-folded unit,
\* or 1 for a unit of neither table.
C14_UnitPriceIsRoundedQuotient ==
    op = "calculate_unit_price" =>
        /\ returned = None <=> (call.total_price <= 0 \/ call.quantity <= 0)
        /\ returned # None =>
            IsRoundedQuotient(returned, call.total_price, call.quantity,
                              FactorOf(call.unit))

\* C14 witness: 3.49 for 250 of the unit "G" gave 13.96
C14_GramsGivePricePerKilogram ==
    /\ op = "calculate_unit_price"
    /\ call = [total_price |-> 349, quantity |-> 250, unit |-> <<"G">>]
    /\ returned = 1396

\* the distance between two amounts
AbsDiff(a, b) == IF a >= b THEN a - b ELSE b - a

\* C15: validate_unit_price returns true exactly when calculate_unit_price
\* of the same arguments is not None and differs from unit_price by at most
\* the tolerance, a difference equal to the tolerance being accepted; it
\* returns false when the calculation returns None.
C15_ValidExactlyWithinTolerance ==
    op = "validate_unit_price" =>
        (returned <=>
            \E calculated \in CalculateUnitPrice(call.total_price, call.quantity, call.unit) :
                /\ calculated # None
                /\ AbsDiff(calculated, call.unit_price) <= call.tolerance)

(***************************************************************************)
(* Properties of the export service.                                       *)
(***************************************************************************)
\* whether two confidences, given as fractions, are the same number
SameNumber(a, b) == a.num * b.den = b.num * a.den

\* whether the product came back, equal to the original in the fields named
CameBackEqualIn(fields) ==
    /\ returned.kind = "product"
    /\ \A field \in fields : returned.product[field] = call.product[field]

FirstQuantity == FirstPosition(CaseFold(raw), LAMBDA l, i : QuantityEnd(l, i) > 0)

\* raw without the characters from position i up to position j, exclusive
RawWithout(i, j) == Slice(raw, 1, i) \o Slice(raw, j, Len(raw) + 1)

\* C17: when the text has a quantity token, extract_quantity_from_name
\* returns the first occurrence, lower-cased, as the quantity and the text
\* with exactly that one occurrence removed, whitespace normalised, as the
\* name; when it has none, the quantity is empty and the name is the
\* whitespace-normalised text.
C17_OnlyFirstQuantityRemoved ==
    stage = "split" =>
        IF FirstQuantity > 0
        THEN Let(QuantityEnd(CaseFold(raw), FirstQuantity), LAMBDA end :
                /\ split_out[2] = Lower(Strip(Slice(raw, FirstQuantity, end)))
                /\ split_out[1] = NormalizeWhitespace(RawWithout(FirstQuantity, end)))
        ELSE split_out = <<NormalizeWhitespace(raw), <<>>>>

\* the prices the text prints at the "$" of position i, in cents: the amount
\* D.DD after it, or the whole number after it when no "." and digit follow
PrintedAt(s, i) ==
    IF s[i] # "$" THEN {}
    ELSE Let(SpaceRunEnd(s, i + 1), LAMBDA k :
         Let(DigitRunEnd(s, k), LAMBDA e :
            IF e = k THEN {}
            ELSE IF AmountEnd(s, k) > 0 THEN {AmountValue(s, k, AmountEnd(s, k))}
            ELSE IF e + 1 <= Len(s) /\ s[e] = "." /\ IsDigit(s[e + 1]) THEN {}
            ELSE {100 * DigitsValue(Slice(s, k, e))}))

\* the dollar-prefixed prices the text prints
Printed(s) == UNION {PrintedAt(s, i) : i \in 1..Len(s)}

\* C18: extract_all_prices returns, in ascending order and without
\* duplicates, exactly the dollar-prefixed prices written in the text, and no
\* value that the text does not print.
C18_ExactlyThePrintedPrices ==
    op = "extract_all_prices" =>
        /\ \A j, k \in 1..Len(returned) : j < k => returned[j] < returned[k]
        /\ {returned[k] : k \in 1..Len(returned)} = Printed(call.text)

\* the call of export_to_json that the k-th entry of a listing should come
\* from: the most recent call first
CallOfEntry(k) == calls[Len(calls) + 1 - k]

\* C19: after any sequence of n export_to_json calls on one output
\* directory, list_exports(limit) returns min(limit, n) entries, the most
\* recent export first, each with the extraction_id and the source_image of
\* its export.
C19_ListsEveryExport ==
    op = "list_exports" =>
        /\ Len(returned) = Min({call.limit, Len(calls)})
        /\ \A k \in 1..Len(returned) :
            /\ returned[k].extraction_id = CallOfEntry(k).extraction_id
            /\ returned[k].source_image = CallOfEntry(k).source_image

(***************************************************************************)
(* Properties of the regions of price-anchored clustering.                 *)
(***************************************************************************)
\* the squared distance of detection i from the first member of region r
FromAnchor(r, i) ==
    DistSq(Center(ocr_results[regions[r][1]].bbox), Center(ocr_results[i].bbox))

\* the detections claimed when the turn of region r begins: the members of
\* the regions before it
ClaimedBefore(r) == UNION {Range(regions[q]) : q \in 1..(r - 1)}

\* the detections region r could have taken and did not
LeftOut(r) ==
    {i \in 1..Len(ocr_results) :
        i \notin ClaimedBefore(r) /\ i \notin Range(regions[r])
        /\ FromAnchor(r, i) < Radius * Radius}

\* C20: in every region of price-anchored clustering the first member is the
\* anchor, at most 10 further members follow, each of them has its center
\* strictly less than 200 px from the anchor's, they are in ascending order
\* of distance, and no unclaimed detection that was left out is nearer than
\* a member that was taken.
C20_RegionShape ==
    ParsedWithAnchor =>
        /\ Len(regions) = Len(PriceResults(ocr_results))
        /\ \A r \in 1..Len(regions) :
            /\ regions[r][1] = PriceResults(ocr_results)[r]
            /\ Len(regions[r]) - 1 <= 10
            /\ \A j \in 2..Len(regions[r]) :
                /\ FromAnchor(r, regions[r][j]) < 200 * 200
                /\ \A k \in 2..Len(regions[r]) :
                    j < k => FromAnchor(r, regions[r][j]) <= FromAnchor(r, regions[r][k])
                /\ \A i \in LeftOut(r) :
                    FromAnchor(r, i) >= FromAnchor(r, regions[r][j])

\* C20 witness: a region of an anchor and 10 further members at two
\* different distances, and a detection within the radius that it left out
C20_FullRegionLeavesOneOut ==
    /\ ParsedWithAnchor
    /\ \E r \in 1..Len(regions) :
        /\ Len(regions[r]) = 11
        /\ LeftOut(r) # {}
        /\ \E j, k \in 2..11 :
            FromAnchor(r, regions[r][j]) < FromAnchor(r, regions[r][k])

\* whether a price p with 0 < p <= 10000 dollars is read from the detection,
\* by extract_price or, when it reads none, as the first number of the text
ReadsValidPrice(d) ==
    Let(ExtractPrice(d.text, TRUE), LAMBDA p :
        IF p # None /\ p # 0 THEN p > 0 /\ p <= 1000000
        ELSE Let(FirstNumber(d.text), LAMBDA n : n > 0 /\ n <= 1000000))

\* the valid price anchors of the input list, in its order
ValidAnchors == SelectSeq(Indices(ocr_results), LAMBDA i : ReadsValidPrice(ocr_results[i]))

\* C21: price-anchored clustering returns exactly one region per valid price
\* anchor, in the order the anchors have in the input list, each region
\* beginning with its anchor; a detection whose price fails is_valid_price
\* is the anchor of no region.
C21_OneRegionPerAnchor ==
    (phase = "parsed" /\ ValidAnchors # <<>>) =>
        /\ Len(regions) = Len(ValidAnchors)
        /\ \A k \in 1..Len(regions) : regions[k][1] = ValidAnchors[k]
        /\ \A k \in 1..Len(regions) :
            IsValidPrice(LenientPrice(ocr_results[regions[k][1]].text))

\* C21 witness: two anchors parsed into two regions, and between them in the
\* list a detection whose price is above the ceiling
C21_TwoAnchorsAroundInvalid ==
    /\ phase = "parsed"
    /\ Len(regions) = 2
    /\ \E i \in 1..Len(ocr_results) :
        /\ regions[1][1] < i
        /\ i < regions[2][1]
        /\ LenientPrice(ocr_results[i].text) > 100 * MaxPrice

\* the center of detection i of the input list
CenterOf(i) == Center(ocr_results[i].bbox)

\* whether detection i comes before detection j from top to bottom, then
\* from left to right, then in the input list
ReadsBefore(i, j) ==
    \/ CenterOf(i)[2] < CenterOf(j)[2]
    \/ CenterOf(i)[2] = CenterOf(j)[2] /\ CenterOf(i)[1] < CenterOf(j)[1]
    \/ CenterOf(i) = CenterOf(j) /\ i < j

\* C22: fallback clustering is used only when the input has no valid price
\* anchor (with one, every region begins with an anchor), and then the seeds
\* come in top-to-bottom, left-to-right order of the box centers, each seed
\* before the members it claims, every member lies strictly within 150 px of
\* the seed's center, and no detection is a member of two regions or twice
\* of one.
C22_FallbackRegions ==
    phase = "parsed" =>
        /\ ValidAnchors # <<>> =>
            \A r \in 1..Len(regions) : regions[r][1] \in Range(ValidAnchors)
        /\ ValidAnchors = <<>> =>
            /\ \A r, s \in 1..Len(regions) :
                r < s => ReadsBefore(regions[r][1], regions[s][1])
            /\ \A r \in 1..Len(regions) : \A j \in 2..Len(regions[r]) :
                /\ ReadsBefore(regions[r][1], regions[r][j])
                /\ DistSq(CenterOf(regions[r][1]), CenterOf(regions[r][j])) < 150 * 150
            /\ \A r, s \in 1..Len(regions) :
                r # s => Range(regions[r]) \cap Range(regions[s]) = {}
            /\ \A r \in 1..Len(regions) :
                Cardinality(Range(regions[r])) = Len(regions[r])

\* C22 witness: a list without an anchor clustered into two regions, after a
\* seed that was dropped alone although a detection exactly 150 px from it
\* is a member of a later region, and with a seed that is not the first
\* detection of the list
C22_TwoRegionsAfterDroppedSeed ==
    /\ phase = "parsed"
    /\ ValidAnchors = <<>>
    /\ Len(regions) = 2
    /\ regions[1][1] # 1
    /\ \E d \in 1..Len(ocr_results) :
        /\ \A r \in 1..Len(regions) : d \notin Range(regions[r])
        /\ \E r \in 1..Len(regions) : \E j \in 1..Len(regions[r]) :
            DistSq(CenterOf(d), CenterOf(regions[r][j])) = 150 * 150

(***************************************************************************)
(* Properties of the name extraction.                                      *)
(***************************************************************************)
\* the text of member m with D.DD prices and standalone digit tokens removed
WithoutNumbers(m) == Strip(StripStandaloneDigits(StripPrices(Strip(ocr_results[m].text))))

\* whether member m qualifies as the name: its text is not made only of
\* digits, "$", "." and spaces, and at least 2 characters are left of it
Qualifies(m) ==
    /\ \E i \in 1..Len(ocr_results[m].text) :
        ~(IsDigit(ocr_results[m].text[i]) \/ ocr_results[m].text[i] \in {"$", ".", " "})
    /\ Len(WithoutNumbers(m)) >= 2

\* whether member m comes before member n in descending order of area,
\* members of equal area in the order of the region
LargerFirst(m, n) ==
    \/ Area(ocr_results[m].bbox) > Area(ocr_results[n].bbox)
    \/ Area(ocr_results[m].bbox) = Area(ocr_results[n].bbox) /\ m < n

\* the first 8 words of a text of more than 8, the text itself otherwise
FirstEightWords(t) ==
    IF Len(Split(t)) > 8 THEN Join(SubSeq(Split(t), 1, 8)) ELSE t

\* C23: _extract_product_name_lenient returns the text, without D.DD prices
\* and standalone digit tokens, of the first member in descending area order
\* that qualifies, cut to its first 8 words; when no member qualifies it
\* returns the combined text without D.DD prices, cut the same way. The
\* result never has more than 8 words.
C23_NameOfLargestQualifying ==
    op = "extract_product_name_lenient" =>
        /\ \A m \in Range(call.region) :
            (Qualifies(m) /\ \A n \in Range(call.region) : LargerFirst(n, m) => ~Qualifies(n))
                => returned = FirstEightWords(WithoutNumbers(m))
        /\ (\A m \in Range(call.region) : ~Qualifies(m)) =>
            returned = FirstEightWords(CleanTextValidator(
                           StripPrices(CombinedText(ocr_results, call.region))))
        /\ Len(Split(returned)) <= 8

\* C23 witness: the name came from a member of 9 words that is not the first
\* of the region, after a larger member that does not qualify
C23_LongNameFromSecondMember ==
    /\ op = "extract_product_name_lenient"
    /\ \E m \in Range(call.region) :
        /\ m > 1
        /\ Qualifies(m)
        /\ Len(Split(WithoutNumbers(m))) > 8
        /\ \E n \in Range(call.region) : LargerFirst(n, m)
        /\ \A n \in Range(call.region) : LargerFirst(n, m) => ~Qualifies(n)
        /\ returned = FirstEightWords(WithoutNumbers(m))
        /\ Len(Split(returned)) = 8

(***************************************************************************)
(* Properties of the position of a product.                                *)
(***************************************************************************)
\* the top-left and bottom-right corners of the members of region i
Corners(i) ==
    UNION {{ocr_results[m].bbox.top_left, ocr_results[m].bbox.bottom_right} :
              m \in Range(regions[i])}

\* whether the rectangle contains the point
Covers(position, point) ==
    /\ position.x <= point[1]
    /\ point[1] <= position.x + position.width
    /\ position.y <= point[2]
    /\ point[2] <= position.y + position.height

\* whether each side of the rectangle passes through one of the points
Tight(position, points) ==
    /\ \E c \in points : c[1] = position.x
    /\ \E c \in points : c[1] = position.x + position.width
    /\ \E c \in points : c[2] = position.y
    /\ \E c \in points : c[2] = position.y + position.height

\* C24: the position of every Product emitted is the smallest axis-aligned
\* rectangle containing the top-left and bottom-right corners of every member
\* of its region: it contains them all and each of its sides passes through
\* one of them.
C24_PositionIsBoundingBox ==
    phase = "parsed" =>
        \A k \in 1..Len(products) :
            /\ products[k].position # NoneT
            /\ \A c \in Corners(Kth(ProductRegions, k)) : Covers(products[k].position, c)
            /\ Tight(products[k].position, Corners(Kth(ProductRegions, k)))

\* C24 witness: a Product of a region of several members whose position is
\* the box of none of them
C24_PositionWiderThanMembers ==
    /\ phase = "parsed"
    /\ \E k \in 1..Len(products) :
        /\ Len(regions[Kth(ProductRegions, k)]) >= 2
        /\ \A m \in Range(regions[Kth(ProductRegions, k)]) :
            \/ Width(ocr_results[m].bbox) < products[k].position.width
            \/ Height(ocr_results[m].bbox) < products[k].position.height

\* the end (exclusive) of the complete number that starts at i: its digits
\* and, after a point, its decimals; 0 when no digit stands at i
NumberEnd(s, i) ==
    Let(DigitRunEnd(s, i), LAMBDA e :
        IF i > Len(s) \/ e = i THEN 0
        ELSE IF e + 1 <= Len(s) /\ s[e] = "." /\ IsDigit(s[e + 1])
        THEN DigitRunEnd(s, e + 1)
        ELSE e)

\* the complete number that starts at i, in cents; None when no number
\* starts there or when it is not a whole number of cents
NumberCents(s, i) ==
    Let2(DigitRunEnd(s, i), NumberEnd(s, i), LAMBDA e, n :
        IF n = 0 THEN None
        ELSE IF n = e THEN 100 * DigitsValue(Slice(s, i, e))
        ELSE IF \E j \in (e + 3)..(n - 1) : s[j] # "0" THEN None
        ELSE 100 * DigitsValue(Slice(s, i, e))
             + 10 * DigitsValue(Slice(s, e + 1, e + 2))
             + (IF n > e + 2 THEN DigitsValue(Slice(s, e + 2, e + 3)) ELSE 0))

\* the complete numbers printed after a "$" in the text, in cents
PrintedAfterDollar(s) ==
    {NumberCents(s, SpaceRunEnd(s, i + 1)) : i \in {j \in 1..Len(s) : s[j] = "$"}}
        \ {None}

\* C25: every value extract_price returns is a complete number printed after
\* a "$" in the text, never a truncated prefix of a longer number.
C25_CompleteNumberReturned ==
    (pc = "done" /\ op = "none" /\ price_out # None) =>
        price_out \in PrintedAfterDollar(text)

(***************************************************************************)
(* Properties of the parser on reordered lists.                            *)
(***************************************************************************)
\* what the claim compares of a Product
Essence(p) == <<p.name, p.price, p.description, p.unit_price, p.special_offer>>

\* whether two lists of Products are the same multiset of essences
SameProducts(ps, qs) ==
    /\ Len(ps) = Len(qs)
    /\ \A k \in 1..Len(ps) :
        Cardinality({j \in 1..Len(ps) : Essence(ps[j]) = Essence(ps[k])})
            = Cardinality({j \in 1..Len(qs) : Essence(qs[j]) = Essence(ps[k])})

\* C26 as the specification states it: the products returned do not depend
\* on the order of the detections: for every list and every permutation of
\* it the multiset of (name, price, description, unit_price, special_offer)
\* is the same.
C26_OrderIndependent ==
    op = "parse_products" => SameProducts(products, returned)

\* no detection lies within the radius of two anchors (so no anchor within
\* the radius of another), and no two detections are equally far from one
Unambiguous ==
    /\ ValidAnchors # <<>>
    /\ \A a, b \in Range(ValidAnchors) : \A i \in 1..Len(ocr_results) :
        a # b => \/ DistSq(CenterOf(a), CenterOf(i)) >= Radius * Radius
                 \/ DistSq(CenterOf(b), CenterOf(i)) >= Radius * Radius
    /\ \A a \in Range(ValidAnchors) : \A i, j \in 1..Len(ocr_results) :
        i # j => DistSq(CenterOf(a), CenterOf(i)) # DistSq(CenterOf(a), CenterOf(j))

\* C26, amended: the same for the lists that have a valid price anchor, no
\* detection within 200 px of two anchors and no two detections equally far
\* from an anchor.
C26_OrderIndependentWhenUnambiguous ==
    (op = "parse_products" /\ Unambiguous) => SameProducts(products, returned)

\* C26 witness: an unambiguous list of two anchors, parsed in two orders into
\* the same two Products in different order
C26_SameProductsOtherOrder ==
    /\ op = "parse_products"
    /\ Unambiguous
    /\ Len(ValidAnchors) = 2
    /\ Len(products) = 2
    /\ Essence(products[1]) # Essence(returned[1])
    /\ SameProducts(products, returned)

(***************************************************************************)
(* Further properties of the export service.                               *)
(***************************************************************************)
\* the export files that carry the extraction id
FilesOf(extraction_id) == {f \in directory : f.data.extraction_id = extraction_id}

\* C27: every export_to_json call creates a new file and overwrites none:
\* after n calls on one output directory, calls within the same microsecond
\* included, n export files exist and each extraction id given so far is
\* stored in exactly one file.
C27_EveryExportKept ==
    /\ Cardinality(directory) = Len(calls)
    /\ \A k \in 1..Len(calls) : Cardinality(FilesOf(calls[k].extraction_id)) = 1

\* C28: for every extraction whose export file exists in the output
\* directory, get_extraction(extraction_id) returns the data of that file,
\* however many later exports have been written; it answers 404 only for an
\* id that no existing export file carries.
C28_FoundWhileFileExists ==
    op = "get_extraction" =>
        /\ \A f \in FilesOf(call.extraction_id) :
            returned = [status |-> 200, extraction |-> f.data]
        /\ returned.status = 404 => FilesOf(call.extraction_id) = {}

(***************************************************************************)
(* Properties of the extraction endpoint.                                  *)
(***************************************************************************)
\* the handler of request r has returned or raised
Ended(r) == requests[r].at \in {"returned", "raised"}

\* C29: when the handler of a request whose upload was saved returns or
\* raises, cleanup_file has been called on the saved path, whichever of
\* preprocessing, OCR, parsing and export failed or went through; a request
\* rejected by file validation (HTTP 400) has saved no file and run no OCR.
C29_CleanupBeforeEnd ==
    \A r \in 1..MaxRequests :
        /\ (Ended(r) /\ requests[r].filepath # 0) => requests[r].cleanups >= 1
        /\ requests[r].status = 400 =>
            /\ requests[r].filepath = 0
            /\ ~requests[r].ocr_ran

\* C29 witness: a request that raised after OCR had run, with cleanup_file
\* called once on its saved upload, and a request that was rejected
C29_FailedAndRejected ==
    /\ \E r \in 1..MaxRequests :
        /\ requests[r].at = "raised"
        /\ requests[r].status = 500
        /\ requests[r].ocr_ran
        /\ requests[r].filepath # 0
        /\ requests[r].cleanups = 1
    /\ \E r \in 1..MaxRequests : requests[r].status = 400

(***************************************************************************)
(* Further properties of the unit price calculator.                        *)
(***************************************************************************)
\* C30: unit normalisation does not change the computed unit price:
\* calculate_unit_price(total_price, quantity, u) equals
\* calculate_unit_price(total_price, quantity, normalize_unit(u)) for every
\* unit string u, long forms included; and normalize_unit is idempotent.
C30_NormalisationKeepsUnitPrice ==
    op = "calculate_unit_price" =>
        /\ returned \in CalculateUnitPrice(call.total_price, call.quantity,
                                           NormalizeUnit(call.unit))
        /\ NormalizeUnit(NormalizeUnit(call.unit)) = NormalizeUnit(call.unit)

====
